---------------------------- MODULE Spec2Model ----------------------------
(***************************************************************************)
(* A model of getangry/ags: the multi-protocol request dispatcher          *)
(* (ags.go), its structured error model (errors), the protocol handlers    *)
(* (grpc.go, websocket.go) and the request-ID middleware                    *)
(* (pkg/middleware/request_id.go).                                          *)
(*                                                                         *)
(* Strings whose content matters are sequences of tokens (a path is the    *)
(* sequence of its separators and segments, a header value the sequence of *)
(* its parts), so that joins, containment tests and formatting are         *)
(* computed rather than assumed.                                           *)
(***************************************************************************)
EXTENDS Integers, Sequences, FiniteSets, TLC

VARIABLES
    \* ---- structured error model (errors.go) ----
    appErr,        \* the *AppError instance under construction, or NoAppError
    errOp,         \* the last operation applied to it (history)
    errOut,        \* the outcome of the last top-level Handler.Error call
    \* ---- request-ID middleware (pkg/middleware/request_id.go) ----
    prefix,        \* the process prefix set by init()
    counters,      \* the shard counters
    reqs,          \* the requests in flight through RequestID
    \* ---- dispatcher (ags.go) ----
    protocols,     \* Handler.protocols
    routes,        \* Handler.routes
    routeOrder,    \* Handler.routeOrder
    middleware,    \* Handler.middleware
    groups,        \* the Group values created so far
    prePhase,      \* cfg.PrePhase
    postPhase,     \* cfg.PostPhase
    staticHandler, \* Handler.staticHandler / Handler.fileServer
    wsRoutes,      \* WebSocketHandler.routes
    debug,         \* Handler.debug (DebugConfig)
    routeCalls,    \* history: the Route calls made, and the last one per pattern
    last,          \* the last request served and what ServeHTTP did with it
    \* ---- a handler at work on its writer (debug.go, ags.go) ----
    inflight,      \* the writer chain of a request in flight and the calls made
    \* ---- goroutines (websocket.go, Handler.Start) ----
    tasks,         \* the goroutines WebSocketHandler.Handle has spawned
    server,        \* Handler.Start: its position, the http.Server, the shutdown goroutine
    mu,            \* h.debug.mu and the flag, with the requests running side by side
    \* ---- pkg/cache ----
    cache          \* an InMemoryCache, the clock, its clients and its cleanup goroutine

errVars == <<appErr, errOp, errOut>>
ridVars == <<prefix, counters, reqs>>
wrVars == <<inflight, tasks, server, mu, cache>>
dispVars == <<routeCalls, protocols, routes, routeOrder, middleware, groups, prePhase,
              postPhase, staticHandler, wsRoutes, debug, last>>
vars == <<appErr, errOp, errOut, prefix, counters, reqs, routeCalls,
          protocols, routes,
          routeOrder, middleware, groups, prePhase, postPhase, staticHandler,
          wsRoutes, debug, last, inflight, tasks, server, mu, cache>>

(***************************************************************************)
(* Bounds of the model.                                                    *)
(***************************************************************************)
MaxDetails == 1
MaxLogs == 1
MaxPasses == 2
MaxSetup == 6

(***************************************************************************)
(* Generic helpers.                                                        *)
(***************************************************************************)
Range(s) == {s[i] : i \in 1..Len(s)}

\* an optional value (a nil-able pointer or interface): None or Some(x)
None == <<>>
Some(x) == <<x>>

\* strings.Contains on token sequences: sub occurs as a contiguous run of s
Contains(s, sub) ==
    \E i \in 1..(Len(s) + 1) :
        /\ i + Len(sub) - 1 <= Len(s)
        /\ SubSeq(s, i, i + Len(sub) - 1) = sub

\* strings.Join on a list of strings (each a single token), as token sequence
RECURSIVE StringsJoin(_, _)
StringsJoin(elems, sep) ==
    IF Len(elems) = 0 THEN <<>>
    ELSE IF Len(elems) = 1 THEN <<elems[1]>>
    ELSE <<elems[1], sep>> \o StringsJoin(Tail(elems), sep)

(***************************************************************************)
(*                      STRUCTURED ERROR MODEL                             *)
(***************************************************************************)
ErrCodeInternal == "INTERNAL_ERROR"
ErrCodeValidation == "VALIDATION_ERROR"
ErrCodeUnauthorized == "UNAUTHORIZED"
ErrCodeNotFound == "NOT_FOUND"
ErrCodeBadRequest == "BAD_REQUEST"

StatusOK == 200
StatusBadRequest == 400
StatusUnauthorized == 401
StatusNotFound == 404
StatusMethodNotAllowed == 405
StatusInternalServerError == 500

\* ErrorCode is a string type: any string is a value of it
KnownCodes == {ErrCodeInternal, ErrCodeValidation, ErrCodeUnauthorized,
               ErrCodeNotFound, ErrCodeBadRequest}
ErrorCodes == KnownCodes \cup {"TEAPOT", ""}
Messages == {"m1", "m2"}
InternalMessage == "An internal error occurred"

\* error values: the nil interface, an errors.New value, a %w wrapper, *AppError
NilError == [kind |-> "nil"]
PlainError(t) == [kind |-> "plain", text |-> t]
WrapError(t, inner) == [kind |-> "wrap", text |-> t, inner |-> inner]
NoAppError == [kind |-> "none"]
BackgroundCtx == "background"

\* a faulty variant: the table with the NOT_FOUND row missing
getHTTPStatusForErrorCodeNotFoundAs500(code) ==
    CASE code \in {ErrCodeValidation, ErrCodeBadRequest} -> StatusBadRequest
      [] code = ErrCodeUnauthorized -> StatusUnauthorized
      [] OTHER -> StatusInternalServerError

\* getHTTPStatusForErrorCode: the switch over the code, 500 by default
getHTTPStatusForErrorCode(code) ==
    CASE code \in {ErrCodeValidation, ErrCodeBadRequest} -> StatusBadRequest
      [] code = ErrCodeUnauthorized -> StatusUnauthorized
      [] code = ErrCodeNotFound -> StatusNotFound
      [] OTHER -> StatusInternalServerError

\* (self is the address of the struct: a *AppError is the same instance as
\* another when their structs have the same address)
NewError(code, message) ==
    [kind |-> "app",
     self |-> "&AppError",
     MainError |-> NilError,
     Code |-> code,
     Message |-> message,
     Details |-> <<>>,
     InternalLogs |-> <<>>,
     Context |-> BackgroundCtx,
     StatusCode |-> getHTTPStatusForErrorCode(code)]

WithError(e, err) == [e EXCEPT !.MainError = err]

WithContext(e, ctx) == [e EXCEPT !.Context = ctx]

\* runtime.Stack: the non-blank, trimmed lines of the goroutine's stack dump
StackSnapshot == <<"goroutine 1 [running]:", "ags.(*AppError).WithDetail">>
EmptyMap == [k \in {} |-> ""]

\* a faulty variant: the new detail goes in front of the others
WithDetailPrepending(e, code, message, now) ==
    LET detail == [Code |-> code, Message |-> message, Field |-> "",
                   Context |-> [Stack |-> StackSnapshot, Time |-> now,
                                Trace |-> "", Metadata |-> EmptyMap]]
    IN [e EXCEPT !.Details = <<detail>> \o @]

WithDetail(e, code, message, now) ==
    LET detail == [Code |-> code, Message |-> message, Field |-> "",
                   Context |-> [Stack |-> StackSnapshot, Time |-> now,
                                Trace |-> "", Metadata |-> EmptyMap]]
    IN [e EXCEPT !.Details = Append(@, detail)]

\* a faulty variant: a field error makes the response a 400
WithFieldSettingStatus(e, fld, message, now) ==
    LET detail == [Code |-> ErrCodeValidation, Message |-> message,
                   Field |-> fld,
                   Context |-> [Stack |-> <<>>, Time |-> now,
                                Trace |-> "", Metadata |-> EmptyMap]]
    IN [e EXCEPT !.Details = Append(@, detail), !.StatusCode = StatusBadRequest]

WithField(e, fld, message, now) ==
    LET detail == [Code |-> ErrCodeValidation, Message |-> message,
                   Field |-> fld,
                   Context |-> [Stack |-> <<>>, Time |-> now,
                                Trace |-> "", Metadata |-> EmptyMap]]
    IN [e EXCEPT !.Details = Append(@, detail)]

MapSet(m, k, v) == [x \in (DOMAIN m) \cup {k} |-> IF x = k THEN v ELSE m[x]]

\* a faulty variant: the key is set in the metadata of every detail
WithMetadataEverywhere(e, key, value) ==
    [e EXCEPT !.Details =
        [i \in 1..Len(e.Details) |->
            [e.Details[i] EXCEPT !.Context.Metadata = MapSet(@, key, value)]]]

WithMetadata(e, key, value) ==
    IF Len(e.Details) > 0
    THEN [e EXCEPT !.Details[Len(e.Details)].Context.Metadata =
                        MapSet(@, key, value)]
    ELSE e

\* fmt.Sprintf(format, args...): the format with its arguments rendered
Sprintf(format, args) == <<format>> \o args

AddInternalLog(e, format, args) ==
    [e EXCEPT !.InternalLogs = Append(@, Sprintf(format, args))]

\* the %T rendering of an error value
TypeName(err) ==
    CASE err.kind = "nil" -> "<nil>"
      [] err.kind = "plain" -> "*errors.errorString"
      [] err.kind = "wrap" -> "*fmt.wrapError"
      [] OTHER -> "*ags.AppError"

\* errors.As(err, &appErr): the first *AppError in err's Unwrap chain
RECURSIVE ErrorsAs(_)
ErrorsAs(err) ==
    CASE err.kind = "app" -> err
      [] err.kind = "wrap" -> ErrorsAs(err.inner)
      [] OTHER -> NoAppError

\* calls on an http.ResponseWriter, in the order a function makes them
HeaderSet(k, v) == [op |-> "Header.Set", key |-> k, val |-> v, status |-> 0]
WriteHeaderCall(s) == [op |-> "WriteHeader", key |-> "", val |-> "", status |-> s]
WriteCall(b) == [op |-> "Write", key |-> "", val |-> b, status |-> 0]

\* json.Encoder.Encode of an ErrorInfo
EncodeErrorInfo(info) == [code |-> info.Code, message |-> info.Message]

\* json.Encoder.Encode of a StandardResponse: results and error are omitempty
EncodeStandardResponse(r) ==
    LET keys == {"ok", "message"}
                  \cup (IF r.Results = None THEN {} ELSE {"results"})
                  \cup (IF r.Error = None THEN {} ELSE {"error"})
    IN [k \in keys |->
            CASE k = "ok" -> r.OK
              [] k = "message" -> r.Message
              [] k = "results" -> r.Results[1]
              [] OTHER -> EncodeErrorInfo(r.Error[1])]

\* a faulty variant: an envelope that also carries the internal logs
ErrorResponseLeakingLogs(e) ==
    [OK |-> FALSE, Message |-> e.Message,
     Results |-> IF e.InternalLogs = <<>> THEN None ELSE Some(e.InternalLogs),
     Error |-> Some([Code |-> e.Code, Message |-> e.Message])]

\* the client-facing envelope Handler.Error builds from an *AppError
ErrorResponse(e) ==
    [OK |-> FALSE, Message |-> e.Message, Results |-> None,
     Error |-> Some([Code |-> e.Code, Message |-> e.Message])]

\* a faulty variant: a wrapper that keeps the original error's text as the message
DefaultErrKeepingText(err) ==
    AddInternalLog(
        WithError(NewError(ErrCodeInternal,
                           IF err.kind = "plain" THEN err.text
                           ELSE InternalMessage), err),
        "Unexpected error type: %T", <<TypeName(err)>>)

\* the wrapped error of Handler.Error's non-AppError branch
DefaultErr(err) ==
    AddInternalLog(WithError(NewError(ErrCodeInternal, InternalMessage), err),
                   "Unexpected error type: %T", <<TypeName(err)>>)

\* Handler.Error(w, err) as invocation number `calls` of the recursion:
\* the writer calls it makes, the log entries, the AppError it served and
\* the number of invocations of Handler.Error
RECURSIVE HandlerErrorRec(_, _)
HandlerErrorRec(err, calls) ==
    LET found == ErrorsAs(err) IN
    IF found.kind = "app"
    THEN [writes |-> <<HeaderSet("Content-Type", "application/json"),
                        WriteHeaderCall(found.StatusCode),
                        WriteCall(EncodeStandardResponse(ErrorResponse(found)))>>,
          logged |-> <<[code |-> found.Code, message |-> found.Message,
                        details |-> found.Details,
                        internal_logs |-> found.InternalLogs,
                        original_error |-> found.MainError]>>,
          served |-> found,
          calls |-> calls]
    ELSE HandlerErrorRec(DefaultErr(err), calls + 1)

HandlerError(err) == HandlerErrorRec(err, 1)

(***************************************************************************)
(* Operations on the error model, as a client of the package performs them *)
(***************************************************************************)
PlainTexts == {"boom"}

\* the last operation and its arguments; made is the code NewError was given
Op(name, code, message) ==
    [op |-> name, code |-> code, message |-> message,
     made |-> IF name = "NewError" THEN code ELSE errOp.made]

ErrInit ==
    /\ appErr = NoAppError
    /\ errOp = [op |-> "none", code |-> "", message |-> "", made |-> ""]
    /\ errOut = None

Building == appErr.kind = "app" /\ errOut = None

\* NewError with one of these codes
NewErrorOf(codes) ==
    /\ appErr = NoAppError
    /\ \E c \in codes, m \in Messages :
          /\ appErr' = NewError(c, m)
          /\ errOp' = Op("NewError", c, m)
    /\ UNCHANGED errOut

CallNewError == NewErrorOf(ErrorCodes)

CallWithError ==
    /\ Building
    /\ \E t \in PlainTexts : appErr' = WithError(appErr, PlainError(t))
    /\ errOp' = Op("WithError", "", "")
    /\ UNCHANGED errOut

CallWithContext ==
    /\ Building
    /\ \E c \in {BackgroundCtx, "request"} : appErr' = WithContext(appErr, c)
    /\ errOp' = Op("WithContext", "", "")
    /\ UNCHANGED errOut

MaxBuilt == 2

\* WithDetail on an error with fewer than n details
WithDetailUpTo(n) ==
    /\ Building
    /\ Len(appErr.Details) < n
    /\ \E c \in {ErrCodeValidation, "TEAPOT"}, m \in Messages, t \in {1} :
          /\ appErr' = WithDetail(appErr, c, m, t)
          /\ errOp' = Op("WithDetail", c, m)
    /\ UNCHANGED errOut

CallWithDetail == WithDetailUpTo(MaxDetails)

\* WithField on an error with fewer than n details
WithFieldUpTo(n) ==
    /\ Building
    /\ Len(appErr.Details) < n
    /\ \E f \in {"email"}, m \in Messages, t \in {1} :
          /\ appErr' = WithField(appErr, f, m, t)
          /\ errOp' = Op("WithField", f, m)
    /\ UNCHANGED errOut

CallWithField == WithFieldUpTo(MaxDetails)

CallWithMetadata ==
    /\ Building
    /\ \E k \in {"path"}, v \in {"v"} :
          /\ appErr' = WithMetadata(appErr, k, v)
          /\ errOp' = Op("WithMetadata", k, v)
    /\ UNCHANGED errOut

CallAddInternalLog ==
    /\ Building
    /\ Len(appErr.InternalLogs) < MaxLogs
    /\ appErr' = AddInternalLog(appErr, "retry %d", <<"3">>)
    /\ errOp' = Op("AddInternalLog", "", "")
    /\ UNCHANGED errOut

\* Code is an exported field: a client may assign it after construction
SetCode ==
    /\ Building
    /\ \E c \in {ErrCodeNotFound, "TEAPOT"} :
          /\ c # appErr.Code
          /\ appErr' = [appErr EXCEPT !.Code = c]
          /\ errOp' = Op("SetCode", c, "")
    /\ UNCHANGED errOut

\* the error values a caller can hand to Handler.Error
ErrorArgs ==
    {NilError} \cup {PlainError(t) : t \in PlainTexts}
      \cup {WrapError("outer", PlainError(t)) : t \in PlainTexts}
      \cup (IF appErr.kind = "app"
            THEN {appErr, WrapError("outer", appErr)} ELSE {})

CallError ==
    /\ errOut = None
    /\ \E arg \in ErrorArgs :
          errOut' = Some([arg |-> arg, res |-> HandlerError(arg)])
    /\ errOp' = Op("Error", "", "")
    /\ UNCHANGED appErr

(***************************************************************************)
(*                      REQUEST-ID MIDDLEWARE                              *)
(***************************************************************************)
counterShards == 64

\* strings are byte sequences here: shardCounter hashes the bytes of the key
Addr1 == <<49, 48, 46, 48, 46, 48, 46, 49, 58, 56, 48>>              \* "10.0.0.1:80"
Addr2 == <<49, 48, 46, 48, 46, 48, 46, 49, 58, 52, 52, 51>>          \* "10.0.0.1:443"
Addr3 == <<49, 48, 46, 48, 46, 48, 46, 51, 58, 53, 48, 48, 48>>      \* "10.0.0.3:5000"
RemoteAddrs == {Addr1, Addr2, Addr3}

\* init(): hostname (or "localhost") + "/" + 10 characters of random base64
Prefixes == {<<"localhost", "/", "q0J3xA9_kZ">>, <<"web-1", "/", "Zx81mNoP-a">>}

\* the values an incoming request may carry under X-ReqId (http.Header keeps
\* one list of values per name)
IncomingHeaders == {<<>>, << <<"abc">> >>, << <<"abc">>, <<"up2">> >>}

Requests == {"r1", "r2"}

RECURSIVE Xor(_, _)
Xor(a, b) ==
    IF a = 0 THEN b
    ELSE IF b = 0 THEN a
    ELSE (((a % 2) + (b % 2)) % 2) + 2 * Xor(a \div 2, b \div 2)

\* FNV-1a (hash/fnv New64a), reduced modulo counterShards: the offset basis
\* 14695981039346656037 is 37 and the prime 1099511628211 is 51 modulo 64,
\* and xor and multiplication modulo 2^64 commute with reduction modulo 2^6,
\* so this is hash.Sum64() % 64 exactly
FNVOffsetMod == 37
FNVPrimeMod == 51

RECURSIVE FNV1aMod(_, _)
FNV1aMod(h, bytes) ==
    IF bytes = <<>> THEN h
    ELSE FNV1aMod((Xor(h, Head(bytes) % counterShards) * FNVPrimeMod) % counterShards,
                  Tail(bytes))

\* a faulty variant: every key selects counter 0
shardCounterAlwaysFirst(key) == 0

\* shardCounter(key): the index of the counter it returns a pointer to
shardCounter(key) == FNV1aMod(FNVOffsetMod, key)

\* a faulty variant: the counter is read but not advanced
nextRequestIDNoIncrement(cs, key) ==
    [counters |-> cs, value |-> cs[shardCounter(key)] + 1]

\* atomic.AddUint64(shardCounter(key), 1): the new counters and the value returned
nextRequestID(cs, key) ==
    LET s == shardCounter(key)
    IN [counters |-> [cs EXCEPT ![s] = @ + 1], value |-> cs[s] + 1]

Digit(d) ==
    CASE d = 0 -> "0" [] d = 1 -> "1" [] d = 2 -> "2" [] d = 3 -> "3"
      [] d = 4 -> "4" [] d = 5 -> "5" [] d = 6 -> "6" [] d = 7 -> "7"
      [] d = 8 -> "8" [] OTHER -> "9"

RECURSIVE Decimal(_)
Decimal(n) ==
    IF n < 10 THEN <<Digit(n)>> ELSE Append(Decimal(n \div 10), Digit(n % 10))

RECURSIVE ZeroPad(_, _)
ZeroPad(digits, width) ==
    IF Len(digits) >= width THEN digits ELSE ZeroPad(<<"0">> \o digits, width)

\* fmt.Sprintf("%s-%06d", prefix, n)
FormatID(pfx, n) == pfx \o <<"-">> \o ZeroPad(Decimal(n), 6)

\* http.Header.Get: the first value under the name, "" when there is none
HeaderGet(values) == IF values = <<>> THEN <<>> ELSE values[1]

\* http.Header.Set: the name's values become the single value v
HeaderSetValue(values, v) == <<v>>

\* the final ID of one pass of RequestID
ChainID(existing, newID) ==
    IF existing # <<>> THEN existing \o <<"/">> \o newID ELSE newID

\* (resp is the header of the response writer that travels with the request)
NewRequest ==
    [pc |-> "new", addr |-> <<>>, header |-> <<>>, ctx |-> None, n |-> 0,
     passes |-> 0, orig |-> <<>>, ids |-> <<>>, shards |-> <<>>, ns |-> <<>>,
     resp |-> EmptyMap]

\* a faulty variant: the middleware echoes the ID on the response
ResponseHeaderEchoing(resp, final) == MapSet(resp, "X-ReqId", final)

\* the response header as RequestID hands it to next: it makes no call on w
ResponseHeader(resp, final) == resp

RidInit ==
    /\ prefix \in Prefixes
    /\ counters = [i \in 0..(counterShards - 1) |-> 0]
    /\ reqs = [r \in Requests |-> NewRequest]

\* a request reaches the middleware
Arrive(r) ==
    /\ reqs[r].pc = "new"
    /\ \E a \in RemoteAddrs, h \in IncomingHeaders :
          reqs' = [reqs EXCEPT ![r] =
                      [@ EXCEPT !.pc = "entered", !.addr = a, !.header = h,
                                !.orig = h]]
    /\ UNCHANGED <<prefix, counters>>

\* RequestID, up to and including the atomic increment of nextRequestID
Count(r) ==
    /\ reqs[r].pc = "entered"
    /\ LET res == nextRequestID(counters, reqs[r].addr) IN
          /\ counters' = res.counters
          /\ reqs' = [reqs EXCEPT ![r] =
                        [@ EXCEPT !.pc = "counted", !.n = res.value,
                                  !.ns = Append(@, res.value),
                                  !.shards = Append(@, shardCounter(reqs[r].addr))]]
    /\ UNCHANGED prefix

\* the rest of RequestID: format the ID, chain it, set header and context,
\* and call next
Inject(r) ==
    /\ reqs[r].pc = "counted"
    /\ LET generated == FormatID(prefix, reqs[r].n)
           final == ChainID(HeaderGet(reqs[r].header), generated)
       IN reqs' = [reqs EXCEPT ![r] =
                      [@ EXCEPT !.pc = "next",
                                !.header = HeaderSetValue(@, final),
                                !.ctx = Some(final),
                                !.resp = ResponseHeader(@, final),
                                !.passes = @ + 1,
                                !.ids = Append(@, generated)]]
    /\ UNCHANGED <<prefix, counters>>

\* next is RequestID again (the middleware is installed more than once, as
\* when Start's RequestID(a) wraps a handler that uses it too)
Reenter(r) ==
    /\ reqs[r].pc = "next"
    /\ reqs[r].passes < MaxPasses
    /\ reqs' = [reqs EXCEPT ![r].pc = "entered"]
    /\ UNCHANGED <<prefix, counters>>

(***************************************************************************)
(*                            DISPATCHER                                   *)
(***************************************************************************)
MethodGet == "GET"
MethodPost == "POST"
MethodDelete == "DELETE"

\* ---- paths: sequences of "/" separators and segment tokens ----
Slash == "/"

\* the segments of a path: the maximal runs of tokens between separators
RECURSIVE SplitSegs(_, _)
SplitSegs(p, cur) ==
    IF p = <<>> THEN <<cur>>
    ELSE IF Head(p) = Slash THEN <<cur>> \o SplitSegs(Tail(p), <<>>)
    ELSE SplitSegs(Tail(p), Append(cur, Head(p)))

\* path.Clean's pass over the segments: empty and "." segments are dropped,
\* ".." removes the segment before it (at the root it is dropped, at the start
\* of a relative path it is kept)
RECURSIVE CleanSegs(_, _, _)
CleanSegs(segs, out, rooted) ==
    IF segs = <<>> THEN out
    ELSE LET sg == Head(segs) IN
         IF sg = <<>> \/ sg = <<".">> THEN CleanSegs(Tail(segs), out, rooted)
         ELSE IF sg = <<"..">>
              THEN IF out # <<>> /\ out[Len(out)] # <<"..">>
                   THEN CleanSegs(Tail(segs), SubSeq(out, 1, Len(out) - 1), rooted)
                   ELSE IF rooted THEN CleanSegs(Tail(segs), out, rooted)
                   ELSE CleanSegs(Tail(segs), Append(out, sg), rooted)
              ELSE CleanSegs(Tail(segs), Append(out, sg), rooted)

RECURSIVE JoinSegs(_)
JoinSegs(segs) ==
    IF segs = <<>> THEN <<>>
    ELSE IF Len(segs) = 1 THEN segs[1]
    ELSE segs[1] \o <<Slash>> \o JoinSegs(Tail(segs))

\* path.Clean
PathClean(p) ==
    IF p = <<>> THEN <<".">>
    ELSE LET rooted == (p[1] = Slash)
             body == JoinSegs(CleanSegs(SplitSegs(p, <<>>), <<>>, rooted))
         IN IF rooted THEN <<Slash>> \o body
            ELSE IF body = <<>> THEN <<".">> ELSE body

RECURSIVE ConcatWithSlash(_)
ConcatWithSlash(elems) ==
    IF elems = <<>> THEN <<>>
    ELSE IF Len(elems) = 1 THEN elems[1]
    ELSE elems[1] \o <<Slash>> \o ConcatWithSlash(Tail(elems))

\* a faulty variant: the elements joined by "/" and not cleaned
PathJoinNaive(elems) ==
    ConcatWithSlash(SelectSeq(elems, LAMBDA e : e # <<>>))

\* path.Join: the non-empty elements joined by "/" and cleaned; "" if none
PathJoin(elems) ==
    LET nonEmpty == SelectSeq(elems, LAMBDA e : e # <<>>)
    IN IF nonEmpty = <<>> THEN <<>> ELSE PathClean(ConcatWithSlash(nonEmpty))

\* ---- the underlying http.ResponseWriter ----
\* whCalls lists the statuses of the WriteHeader calls made on it, returned
\* the byte counts its Write calls returned; closed: the connection is gone
FreshWriter ==
    [wroteHeader |-> FALSE, status |-> 0, header |-> EmptyMap, body |-> <<>>,
     whCalls |-> <<>>, returned |-> <<>>, closed |-> FALSE]

\* the length of a payload: the bytes of a byte sequence, the members of an
\* encoded object
PayloadLen(b) == Cardinality(DOMAIN b)

\* one call on the underlying writer: the first WriteHeader wins, a Write
\* before any WriteHeader commits 200, headers set after the commit are not
\* sent; a Write on a closed connection writes nothing and returns 0
WriterApply(w, call) ==
    CASE call.op = "Header.Set" ->
            IF w.wroteHeader THEN w
            ELSE [w EXCEPT !.header = MapSet(@, call.key, call.val)]
      [] call.op = "WriteHeader" ->
            IF w.wroteHeader THEN [w EXCEPT !.whCalls = Append(@, call.status)]
            ELSE [w EXCEPT !.wroteHeader = TRUE, !.status = call.status,
                           !.whCalls = Append(@, call.status)]
      [] OTHER ->
            IF w.closed
            THEN [w EXCEPT !.wroteHeader = TRUE,
                           !.status = IF w.wroteHeader THEN @ ELSE StatusOK,
                           !.returned = Append(@, 0)]
            ELSE [w EXCEPT !.wroteHeader = TRUE,
                           !.status = IF w.wroteHeader THEN @ ELSE StatusOK,
                           !.body = Append(@, call.val),
                           !.returned = Append(@, PayloadLen(call.val))]

\* ---- ResponseWriter (ags.go) wrapped around the underlying writer ----
NewResponseWriter == [status |-> StatusOK, size |-> 0, committed |-> FALSE]

\* a faulty variant: every WriteHeader is recorded and passed on
ResponseWriterWriteHeaderEveryTime(rw, w, status) ==
    [rw |-> [rw EXCEPT !.status = status, !.committed = TRUE],
     w |-> WriterApply(w, WriteHeaderCall(status))]

\* ResponseWriter.WriteHeader, on the pair of the wrapper and the writer below
ResponseWriterWriteHeader(rw, w, status) ==
    IF ~rw.committed
    THEN [rw |-> [rw EXCEPT !.status = status, !.committed = TRUE],
          w |-> WriterApply(w, WriteHeaderCall(status))]
    ELSE [rw |-> rw, w |-> w]

\* ResponseWriter.Write: n is what the underlying Write returned
ResponseWriterWrite(rw, w, b) ==
    LET c == IF ~rw.committed THEN ResponseWriterWriteHeader(rw, w, StatusOK)
             ELSE [rw |-> rw, w |-> w]
        w2 == WriterApply(c.w, WriteCall(b))
        n == w2.returned[Len(w2.returned)]
    IN [rw |-> [c.rw EXCEPT !.size = @ + n], w |-> w2]

\* ---- debugResponseWriter (debug.go) around the ResponseWriter ----
\* dw is the wrapper with what lies below it: rw, w, the captured bytes buf
\* and the response dumps logged; enabled is isDebugEnabled() at the call
\* a faulty variant: with debug on, the captured bytes are sent in place of b
debugResponseWriterWriteCaptured(dw, b, enabled) ==
    LET buf2 == IF enabled THEN Append(dw.buf, b) ELSE dw.buf
        pr == ResponseWriterWrite(dw.rw, dw.w, IF enabled THEN buf2 ELSE b)
    IN [dw EXCEPT !.buf = buf2, !.rw = pr.rw, !.w = pr.w]

\* debugResponseWriter.Write
debugResponseWriterWrite(dw, b, enabled) ==
    LET buf2 == IF enabled THEN Append(dw.buf, b) ELSE dw.buf
        pr == ResponseWriterWrite(dw.rw, dw.w, b)
    IN [dw EXCEPT !.buf = buf2, !.rw = pr.rw, !.w = pr.w]

\* debugResponseWriter.WriteHeader
debugResponseWriterWriteHeader(dw, status, enabled) ==
    LET pr == ResponseWriterWriteHeader(dw.rw, dw.w, status)
    IN [dw EXCEPT !.rw = pr.rw, !.w = pr.w,
                  !.dumps = IF enabled
                            THEN Append(@, [status |-> status, body |-> dw.buf])
                            ELSE @]

\* one call on the wrapper; Header() is the embedded writer's
WrappedApply(dw, call, enabled) ==
    CASE call.op = "Header.Set" -> [dw EXCEPT !.w = WriterApply(@, call)]
      [] call.op = "WriteHeader" ->
            debugResponseWriterWriteHeader(dw, call.status, enabled)
      [] OTHER -> debugResponseWriterWrite(dw, call.val, enabled)

\* the run of one request: the underlying writer, the wrapper (once
\* wrapHandler made one), the events so far, the debug flag
RECURSIVE ApplyCalls(_, _, _)
ApplyCalls(st, wrapped, calls) ==
    IF calls = <<>> THEN st
    ELSE LET next ==
               IF wrapped
               THEN LET dw == WrappedApply([rw |-> st.rw, w |-> st.w,
                                            buf |-> st.buf, dumps |-> st.dumps],
                                           Head(calls), st.enableDebug)
                    IN [st EXCEPT !.rw = dw.rw, !.w = dw.w, !.buf = dw.buf,
                                  !.dumps = dw.dumps]
               ELSE [st EXCEPT !.w = WriterApply(st.w, Head(calls))]
         IN ApplyCalls(next, wrapped, Tail(calls))

\* RespondJSON(w, status, message, data): the calls it makes on w
\* a faulty variant: ok for every status that is not a server error
RespondJSONOkBelow500(status, message, data) ==
    <<HeaderSet("Content-Type", "application/json"),
      WriteHeaderCall(status),
      WriteCall(EncodeStandardResponse(
          [OK |-> status < 500, Message |-> message,
           Results |-> data, Error |-> None]))>>

\* RespondJSON(w, status, message, data), as the calls it makes on w
RespondJSON(status, message, data) ==
    <<HeaderSet("Content-Type", "application/json"),
      WriteHeaderCall(status),
      WriteCall(EncodeStandardResponse(
          [OK |-> status >= 200 /\ status < 300, Message |-> message,
           Results |-> data, Error |-> None]))>>

\* http.Error(w, text, code)
HttpError(text, code) ==
    <<HeaderSet("Content-Type", "text/plain; charset=utf-8"),
      HeaderSet("X-Content-Type-Options", "nosniff"),
      WriteHeaderCall(code),
      WriteCall([text |-> text])>>

\* an event of a request's run
Ev(kind, id, arg) == [ev |-> kind, id |-> id, arg |-> arg]
Emit(st, e) == [st EXCEPT !.trace = Append(@, e)]

\* ---- protocol handlers (grpc.go, websocket.go) ----
ContentTypeGRPC == <<"application/grpc">>

\* a faulty variant: the Content-Type compared for equality
GRPCDetectProtocolExact(r) ==
    r.ProtoMajor = 2 /\ r.ContentType = ContentTypeGRPC

\* GRPCHandler.DetectProtocol; r.ContentType is r.Header.Get("Content-Type")
GRPCDetectProtocol(r) ==
    r.ProtoMajor = 2 /\ Contains(r.ContentType, ContentTypeGRPC)

\* websocket.IsWebSocketUpgrade: Connection lists "upgrade" and Upgrade
\* lists "websocket"
WebSocketDetectProtocol(r) ==
    r.Connection = "upgrade" /\ r.Upgrade = "websocket"

DetectProtocol(ph, r) ==
    IF ph = "grpc" THEN GRPCDetectProtocol(r) ELSE WebSocketDetectProtocol(r)

\* a faulty variant: the registry with WebSocket appended before gRPC
NewHandlerProtocolsWebSocketFirst == <<"ws", "grpc">>

\* NewHandler: gRPC is appended to the registry before WebSocket
NewHandlerProtocols == <<"grpc", "ws">>

\* ---- middleware composition ----
\* a middleware of the application: it either calls next or returns without
Mw(name, callsNext) == [name |-> name, next |-> callsNext]

\* a faulty variant: the wrapping loop run from the first middleware to the last
RECURSIVE WrapForward(_, _, _)
WrapForward(mws, i, inner) ==
    IF i < 1 THEN inner
    ELSE WrapForward(mws, i - 1, Append(inner, mws[i]))

\* "for i := len(mws) - 1; i >= 0; i-- { handler = mws[i](handler) }": the
\* layers around the handler, outermost first, starting from layers `inner`
RECURSIVE WrapReverse(_, _, _)
WrapReverse(mws, i, inner) ==
    IF i < 1 THEN inner
    ELSE WrapReverse(mws, i - 1, <<mws[i]>> \o inner)

\* isMethodAllowed
isMethodAllowed(method, allowedMethods) ==
    \E i \in 1..Len(allowedMethods) : allowedMethods[i] = method

\* ---- Handler.Error called from the dispatcher on writer w or the wrapper ----
CallHandlerError(st, wrapped, err) ==
    ApplyCalls([Emit(st, Ev("Handler.Error", TypeName(err), <<>>))
                   EXCEPT !.errors = Append(@, err)],
               wrapped, HandlerError(err).writes)

\* ---- the handlers a route can be given ----
\* json.NewDecoder(r.Body).Decode(&req) into struct{ Enable bool }: an object
\* with a boolean "enable" gives it, an object without the field leaves the
\* zero value false, anything else (no body, no JSON, a non-boolean) is an error
JSONDecodeEnable(body) ==
    CASE body = "{\"enable\":true}" -> [ok |-> TRUE, Enable |-> TRUE]
      [] body = "{\"enable\":false}" -> [ok |-> TRUE, Enable |-> FALSE]
      [] body = "{}" -> [ok |-> TRUE, Enable |-> FALSE]
      [] OTHER -> [ok |-> FALSE, Enable |-> FALSE]

\* a faulty variant: the flag is inverted instead of set from the body
handleDebugToggleFlipping(req, st) ==
    IF ~JSONDecodeEnable(req.Body).ok
    THEN CallHandlerError(st, TRUE, NewError(ErrCodeBadRequest, "Invalid request body"))
    ELSE ApplyCalls([st EXCEPT !.enableDebug = ~st.enableDebug], TRUE,
                    RespondJSON(StatusOK, "Debug mode updated",
                                Some([debug_enabled |-> ~st.enableDebug])))

\* handleDebugToggle
handleDebugToggle(req, st) ==
    LET dec == JSONDecodeEnable(req.Body) IN
    IF ~dec.ok
    THEN CallHandlerError(st, TRUE, NewError(ErrCodeBadRequest, "Invalid request body"))
    ELSE ApplyCalls([st EXCEPT !.enableDebug = dec.Enable], TRUE,
                    RespondJSON(StatusOK, "Debug mode updated",
                                Some([debug_enabled |-> dec.Enable])))

\* a faulty variant: the check that a key is configured is missing
authenticateDebugUnconfiguredOpen(req, st) ==
    IF req.DebugKey # debug.authKey
    THEN CallHandlerError(st, TRUE, NewError(ErrCodeUnauthorized, "Invalid debug key"))
    ELSE handleDebugToggle(req, st)

\* authenticateDebug(next), next being handleDebugToggle
authenticateDebug(req, st) ==
    IF debug.authKey = ""
    THEN CallHandlerError(st, TRUE,
            NewError(ErrCodeUnauthorized, "Debug authentication not configured"))
    ELSE IF req.DebugKey = ""
    THEN CallHandlerError(st, TRUE, NewError(ErrCodeUnauthorized, "Debug key required"))
    ELSE IF req.DebugKey # debug.authKey
    THEN CallHandlerError(st, TRUE, NewError(ErrCodeUnauthorized, "Invalid debug key"))
    ELSE handleDebugToggle(req, st)

DebugToggleHandler(req, st) == authenticateDebug(req, st)

\* the health check of NewHandler
HealthHandler(st) ==
    ApplyCalls(st, TRUE, <<WriteHeaderCall(StatusOK), WriteCall([text |-> "OK"])>>)

\* the handlers an application registers: H answers 200 with its name, F
\* answers 500, S returns without writing, W writes a body and no status
UserHandlers == {"H", "F", "S"}
HandlerReply(name) ==
    CASE name = "F" -> RespondJSON(StatusInternalServerError, name, None)
      [] name = "S" -> <<>>
      [] name = "W" -> <<WriteCall(<<"hello">>)>>
      [] OTHER -> RespondJSON(StatusOK, name, None)

UserHandler(name, ctx, st) ==
    ApplyCalls(Emit(st, Ev("handler", name, ctx)), TRUE, HandlerReply(name))

RawHandler(name, ctx, req, st) ==
    CASE name = "debugToggle" -> DebugToggleHandler(req, st)
      [] name = "health" -> HealthHandler(st)
      [] OTHER -> UserHandler(name, ctx, st)

\* the handler given to Handler.Route: the layers composed around it when it
\* was registered (chain, outermost first), then the raw handler; reg records
\* the registering group's middleware list as it was at that moment
\* a faulty variant: the next layer runs whether the middleware calls it or not
RECURSIVE RunLayersThrough(_, _, _, _, _)
RunLayersThrough(hd, i, ctx, req, st) ==
    IF i > Len(hd.chain) THEN RawHandler(hd.name, ctx, req, st)
    ELSE RunLayersThrough(hd, i + 1, ctx, req, Emit(st, Ev("mw", hd.chain[i].name, ctx)))

RECURSIVE RunLayers(_, _, _, _, _)
RunLayers(hd, i, ctx, req, st) ==
    IF i > Len(hd.chain) THEN RawHandler(hd.name, ctx, req, st)
    ELSE LET m == hd.chain[i]
             st1 == Emit(st, Ev("mw", m.name, ctx))
         IN IF m.next THEN RunLayers(hd, i + 1, ctx, req, st1)
            ELSE st1

\* ---- wrapHandler ----
\* a faulty variant: the loop left once a post-request function has written
RECURSIVE PostLoopAborting(_, _, _)
PostLoopAborting(i, ctx, st) ==
    IF i > Len(postPhase) THEN st
    ELSE LET st1 == ApplyCalls(Emit(st, Ev("post", postPhase[i].name, ctx)),
                               TRUE, postPhase[i].calls)
         IN IF postPhase[i].calls # <<>> THEN st1
            ELSE PostLoopAborting(i + 1, ctx, st1)

\* "for _, post := range h.cfg.PostPhase { post(ctx, rw, r, duration) }"
RECURSIVE PostLoop(_, _, _)
PostLoop(i, ctx, st) ==
    IF i > Len(postPhase) THEN st
    ELSE PostLoop(i + 1, ctx,
                  ApplyCalls(Emit(st, Ev("post", postPhase[i].name, ctx)),
                             TRUE, postPhase[i].calls))

\* a faulty variant: the error of a pre-request function ignored
PreFailedNever(f) == FALSE

\* "if ctx, err = pre(ctx, rw, r); err != nil"
PreFailed(f) == f.err.kind # "nil"

\* the context a pre-request function returns
PreContext(f, ctx) == IF f.tag = "" THEN ctx ELSE Append(ctx, f.tag)

RECURSIVE PreLoop(_, _, _, _, _)
PreLoop(i, ctx, hd, req, st) ==
    IF i > Len(prePhase)
    THEN PostLoop(1, ctx, RunLayers(hd, 1, ctx, req, st))
    ELSE LET f == prePhase[i]
             st1 == Emit(st, Ev("pre", f.name, ctx))
             st2 == IF f.header = "" THEN st1
                    ELSE ApplyCalls(st1, TRUE, <<HeaderSet(f.header, "valid")>>)
         IN IF PreFailed(f) THEN CallHandlerError(st2, TRUE, f.err)
            ELSE PreLoop(i + 1, PreContext(f, ctx), hd, req, st2)

\* the closure wrapHandler returns, run on a request
\* (with debug enabled the request dump is logged first)
WrapHandlerRun(hd, req, st) ==
    PreLoop(1, req.Ctx, hd, req,
            [(IF st.enableDebug THEN Emit(st, Ev("request dump", "", <<>>))
              ELSE st)
                EXCEPT !.rw = NewResponseWriter, !.buf = <<>>])

\* ---- handleMethodNotAllowed ----
\* a faulty variant: an Allow header naming the first method only
AllowHeaderFirstOnly(allowedMethods) == <<allowedMethods[1]>>

\* strings.Join(allowedMethods, ", ")
AllowHeader(allowedMethods) == StringsJoin(allowedMethods, ", ")

handleMethodNotAllowed(req, allowedMethods, st) ==
    ApplyCalls(Emit(st, Ev("405", "", <<>>)), FALSE,
               <<HeaderSet("Allow", AllowHeader(allowedMethods))>>
                 \o RespondJSON(StatusMethodNotAllowed, "Method not allowed",
                                Some([allowed_methods |-> allowedMethods,
                                      current_method |-> req.Method])))

\* ---- WebSocketHandler.Handle ----
\* a faulty variant: the connection is upgraded before the route is looked up
WebSocketHandleUpgradingFirst(req, st) ==
    IF req.Method # MethodGet
    THEN Emit(st, Ev("ws.upgradeFailed", "", <<>>))
    ELSE IF req.Path \notin wsRoutes
    THEN ApplyCalls(Emit(Emit(st, Ev("ws.upgrade", "", <<>>)),
                         Ev("ws.notfound", "", <<>>)), FALSE,
                    HttpError("WebSocket route not found", StatusNotFound))
    ELSE Emit(Emit(st, Ev("ws.upgrade", "", <<>>)), Ev("ws.spawn", "", <<>>))

\* (ws.upgrade: Upgrade succeeded; ws.spawn: the context is made and the
\* goroutine started; the upgrader refuses a request that is not a GET)
WebSocketHandle(req, st) ==
    IF req.Path \notin wsRoutes
    THEN ApplyCalls(Emit(st, Ev("ws.notfound", "", <<>>)), FALSE,
                    HttpError("WebSocket route not found", StatusNotFound))
    ELSE IF req.Method = MethodGet
    THEN Emit(Emit(st, Ev("ws.upgrade", "", <<>>)), Ev("ws.spawn", "", <<>>))
    ELSE Emit(st, Ev("ws.upgradeFailed", "", <<>>))

\* a faulty variant: the post-request functions run after a protocol handler
HandleThenPost(ph, req, st) ==
    PostLoop(1, req.Ctx,
             IF ph = "grpc"
             THEN Emit(st, Ev("handle", "grpc", <<>>))
             ELSE WebSocketHandle(req, Emit(st, Ev("handle", "ws", <<>>))))

\* ProtocolHandler.Handle
Handle(ph, req, st) ==
    IF ph = "grpc"
    THEN Emit(st, Ev("handle", "grpc", <<>>))
    ELSE WebSocketHandle(req, Emit(st, Ev("handle", "ws", <<>>)))

\* ---- ServeHTTP: the inner handler ----
StaticOrNotFound(req, st) ==
    IF staticHandler # None
    THEN Emit(st, Ev("static", "", <<>>))
    ELSE ApplyCalls(Emit(st, Ev("404", "", <<>>)), FALSE,
                    HttpError("404 page not found", StatusNotFound))

\* a faulty variant: the path cleaned before the lookup
RouteLookupCleaning(req, st) ==
    IF PathClean(req.Path) \in DOMAIN routes
    THEN LET route == routes[PathClean(req.Path)] IN
         IF ~isMethodAllowed(req.Method, route.Methods)
         THEN handleMethodNotAllowed(req, route.Methods, st)
         ELSE WrapHandlerRun(route.Handler, req, st)
    ELSE StaticOrNotFound(req, st)

\* "if route, exists := h.routes[r.URL.Path]; exists": the path as it came
RouteLookup(req, st) ==
    IF req.Path \in DOMAIN routes
    THEN LET route == routes[req.Path] IN
         IF ~isMethodAllowed(req.Method, route.Methods)
         THEN handleMethodNotAllowed(req, route.Methods, st)
         ELSE WrapHandlerRun(route.Handler, req, st)
    ELSE StaticOrNotFound(req, st)

RECURSIVE ProtocolLoop(_, _, _)
ProtocolLoop(i, req, st) ==
    IF i > Len(protocols) THEN RouteLookup(req, st)
    ELSE IF DetectProtocol(protocols[i], req)
         THEN Handle(protocols[i], req,
                     Emit(st, Ev("detect", protocols[i], <<"true">>)))
         ELSE ProtocolLoop(i + 1, req,
                           Emit(st, Ev("detect", protocols[i], <<"false">>)))

\* a faulty variant: the global middleware left out for a request a protocol
\* claims
RECURSIVE GlobalRunAroundRoutes(_, _, _, _)
GlobalRunAroundRoutes(layers, i, req, st) ==
    IF i > Len(layers) \/ \E k \in 1..Len(protocols) :
                              DetectProtocol(protocols[k], req)
    THEN ProtocolLoop(1, req, st)
    ELSE LET st1 == Emit(st, Ev("mw", layers[i].name, req.Ctx))
         IN IF layers[i].next THEN GlobalRunAroundRoutes(layers, i + 1, req, st1)
            ELSE st1

\* the global middleware around the inner handler, composed on every request
RECURSIVE GlobalRun(_, _, _, _)
GlobalRun(layers, i, req, st) ==
    IF i > Len(layers) THEN ProtocolLoop(1, req, st)
    ELSE LET st1 == Emit(st, Ev("mw", layers[i].name, req.Ctx))
         IN IF layers[i].next THEN GlobalRun(layers, i + 1, req, st1)
            ELSE st1

ServeHTTP(req) ==
    GlobalRun(WrapReverse(middleware, Len(middleware), <<>>), 1, req,
              [w |-> FreshWriter, rw |-> NewResponseWriter, buf |-> <<>>,
               dumps |-> <<>>, trace |-> <<>>,
               errors |-> <<>>, enableDebug |-> debug.enableDebug])

(***************************************************************************)
(* The dispatcher's state after NewHandler, and its operations.            *)
(***************************************************************************)
PathToggle == <<"/", "_", "/", "debug", "/", "toggle">>
PathHealth == <<"/", "_", "/", "health">>
PathX == <<"/", "x">>
PathXSlash == <<"/", "x", "/">>
PathApi == <<"/", "api">>
PathV1 == <<"/", "v1">>
PathTest == <<"/", "test">>
PathApiTest == <<"/", "api", "/", "test">>
PathApiV1Test == <<"/", "api", "/", "v1", "/", "test">>

\* the pre-request function NewHandler adds: it sets X-PreReq and keeps ctx
BuiltinPre == [name |-> "builtin", tag |-> "", err |-> NilError, header |-> "X-PreReq"]
PreFunc(name, tag, err) == [name |-> name, tag |-> tag, err |-> err, header |-> ""]
PrePool == {PreFunc("P1", "p1", NilError), PreFunc("P2", "p2", NilError),
            PreFunc("Pdeny", "", PlainError("denied")),
            PreFunc("Pauth", "pa", NewError(ErrCodeUnauthorized, "m1"))}
\* post-request functions: Q1 only observes, Q2 also writes to the writer it
\* is given, a status and a chunk
PostQ1 == [name |-> "Q1", calls |-> <<>>]
PostQ2 == [name |-> "Q2",
           calls |-> <<WriteHeaderCall(StatusNotFound), WriteCall(<<"late">>)>>]

GlobalMwPool == {Mw("G", TRUE), Mw("X", FALSE)}
GroupMwPool == {Mw("A", TRUE), Mw("B", TRUE)}
\* the groups an application creates: h.Group("/api"), then api.Group("/v1")
GroupDefs == {[id |-> "api", parent |-> "", prefix |-> PathApi],
              [id |-> "v1", parent |-> "api", prefix |-> PathV1]}
MethodLists == {<<>>, <<MethodGet, MethodPost>>}

\* wrapHandler(handler): the closure, as the handler it wraps
wrapHandler(hd) == hd

\* a faulty variant: a pattern already in the table keeps its first entry
RouteKeepingFirst(pattern, hd, methods) ==
    LET ms == IF Len(methods) = 0 THEN <<MethodGet>> ELSE methods
    IN [routes |-> IF pattern \in DOMAIN routes THEN routes
                   ELSE MapSet(routes, pattern,
                               [Methods |-> ms, Handler |-> wrapHandler(hd),
                                seen |-> middleware]),
        routeOrder |-> Append(routeOrder, pattern)]

\* Handler.Route: the route table and the order sequence after the call;
\* seen records h.middleware as it was when the route was registered
Route(pattern, hd, methods) ==
    LET ms == IF Len(methods) = 0 THEN <<MethodGet>> ELSE methods
    IN [routes |-> MapSet(routes, pattern,
                          [Methods |-> ms, Handler |-> wrapHandler(hd),
                           seen |-> middleware]),
        routeOrder |-> Append(routeOrder, pattern)]

\* NewHandler: the routes it registers
NewHandlerRoutes ==
    [p \in {PathToggle, PathHealth} |->
        IF p = PathToggle
        THEN [Methods |-> <<MethodPost>>,
              Handler |-> wrapHandler([name |-> "debugToggle", chain |-> <<>>,
                                       reg |-> <<>>]),
              seen |-> <<>>]
        ELSE [Methods |-> <<MethodGet>>,
              Handler |-> wrapHandler([name |-> "health", chain |-> <<>>,
                                       reg |-> <<>>]),
              seen |-> <<>>]]

\* NewHandler(cfg), cfg carrying the pre- and post-request functions pre0, post0,
\* in an environment whose DEBUG_AUTH_KEY is authKey ("" when unset)
NewHandler(pre0, post0, authKey) ==
    /\ protocols = NewHandlerProtocols
    /\ routes = NewHandlerRoutes
    /\ routeOrder = <<PathToggle, PathHealth>>
    /\ middleware = <<>>
    /\ groups = EmptyMap
    /\ prePhase = Append(pre0, BuiltinPre)
    /\ postPhase = post0
    /\ staticHandler = None
    /\ wsRoutes = {}
    /\ debug = [enableDebug |-> FALSE, authKey |-> authKey]
    /\ last = None
    /\ routeCalls =
          [log |-> <<PathToggle, PathHealth>>,
           lastOf |-> [p \in {PathToggle, PathHealth} |->
                         IF p = PathToggle
                         THEN [methods |-> <<MethodPost>>, name |-> "debugToggle",
                               parts |-> <<p>>]
                         ELSE [methods |-> <<MethodGet>>, name |-> "health",
                               parts |-> <<p>>]]]

RECURSIVE SumUses(_)
SumUses(ids) ==
    IF ids = {} THEN 0
    ELSE LET g == CHOOSE x \in ids : TRUE
         IN groups[g].uses + SumUses(ids \ {g})

\* the registration calls made so far
SetupCalls ==
    Len(middleware) + Cardinality(DOMAIN groups) + SumUses(DOMAIN groups)
      + (Len(routeOrder) - 2) + (Len(prePhase) - 1)
      + (IF staticHandler = None THEN 0 ELSE 1) + Cardinality(wsRoutes)

CanSetup == SetupCalls < MaxSetup

\* Handler.Use
CallUse ==
    /\ CanSetup
    /\ \E m \in GlobalMwPool :
          /\ m \notin Range(middleware)
          /\ middleware' = Append(middleware, m)
    /\ last' = None
    /\ UNCHANGED <<routeCalls, protocols,
                   routes, routeOrder, groups, prePhase, postPhase,
                   staticHandler, wsRoutes, debug>>

\* Handler.AddPreRequestFunc
CallAddPreRequestFunc ==
    /\ CanSetup
    /\ \E f \in PrePool :
          /\ f \notin Range(prePhase)
          /\ prePhase' = Append(prePhase, f)
    /\ last' = None
    /\ UNCHANGED <<routeCalls, protocols,
                   routes, routeOrder, middleware, groups, postPhase,
                   staticHandler, wsRoutes, debug>>

\* Handler.RegisterFileServer on an existing directory
CallRegisterFileServer ==
    /\ CanSetup
    /\ staticHandler = None
    /\ staticHandler' = Some([serveSPA |-> TRUE, indexFile |-> "index.html"])
    /\ last' = None
    /\ UNCHANGED <<routeCalls, protocols,
                   routes, routeOrder, middleware, groups, prePhase,
                   postPhase, wsRoutes, debug>>

\* Handler.RegisterWSRoute
CallRegisterWSRoute ==
    /\ CanSetup
    /\ \E p \in {PathX} :
          /\ p \notin wsRoutes
          /\ wsRoutes' = wsRoutes \cup {p}
    /\ last' = None
    /\ UNCHANGED <<routeCalls, protocols,
                   routes, routeOrder, middleware, groups, prePhase,
                   postPhase, staticHandler, debug>>

\* the history after a Route call with these arguments, parts being the
\* group prefixes and the pattern the call came from
Recorded(pattern, methods, name, parts) ==
    [log |-> Append(routeCalls.log, pattern),
     lastOf |-> MapSet(routeCalls.lastOf, pattern,
                       [methods |-> methods, name |-> name, parts |-> parts])]

\* Handler.Route (Get, Post, ... are Route with one method)
CallRoute(handlers) ==
    /\ CanSetup
    /\ \E p \in {PathX}, ms \in MethodLists, name \in handlers :
          LET r == Route(p, [name |-> name, chain |-> <<>>, reg |-> <<>>], ms)
          IN /\ routes' = r.routes
             /\ routeOrder' = r.routeOrder
             /\ routeCalls' = Recorded(p, ms, name, <<p>>)
    /\ last' = None
    /\ UNCHANGED <<protocols, middleware, groups, prePhase, postPhase,
                   staticHandler, wsRoutes, debug>>

\* Handler.Group(prefix, mw...)
\* (parts records the prefixes the group was made from, uses its Use calls)
HandlerGroup(pfx, mw) ==
    [prefix |-> pfx, middleware |-> <<>> \o mw, uses |-> 0, parts |-> <<pfx>>]

\* (given[id] holds the middleware lists the call may pass for group id)
HandlerGroupOf(defs, given) ==
    /\ CanSetup
    /\ \E d \in defs : \E mw \in given[d.id] :
          /\ d.parent = ""
          /\ d.id \notin DOMAIN groups
          /\ groups' = MapSet(groups, d.id, HandlerGroup(d.prefix, mw))
    /\ last' = None
    /\ UNCHANGED <<routeCalls, protocols,
                   routes, routeOrder, middleware, prePhase,
                   postPhase, staticHandler, wsRoutes, debug>>

CallHandlerGroup(defs) ==
    HandlerGroupOf(defs, [id \in {d.id : d \in defs} |-> {<<>>, <<Mw("A", TRUE)>>}])

\* a faulty variant: the sub-group starts without the parent's middleware
GroupGroupEmpty(g, pfx) ==
    [prefix |-> PathJoin(<<g.prefix, pfx>>), middleware |-> <<>>, uses |-> 0,
     parts |-> Append(g.parts, pfx)]

\* Group.Group(prefix): the sub-group starts with a copy of g's middleware
GroupGroup(g, pfx) ==
    [prefix |-> PathJoin(<<g.prefix, pfx>>), middleware |-> <<>> \o g.middleware,
     uses |-> 0, parts |-> Append(g.parts, pfx)]

CallGroupGroup(defs) ==
    /\ CanSetup
    /\ \E d \in defs :
          /\ d.parent \in DOMAIN groups
          /\ d.id \notin DOMAIN groups
          /\ groups' = MapSet(groups, d.id, GroupGroup(groups[d.parent], d.prefix))
    /\ last' = None
    /\ UNCHANGED <<routeCalls, protocols,
                   routes, routeOrder, middleware, prePhase,
                   postPhase, staticHandler, wsRoutes, debug>>

\* Group.Use
\* (pool[g] holds the middleware the application adds to group g)
GroupUseOf(pool) ==
    /\ CanSetup
    /\ \E g \in DOMAIN groups : \E m \in pool[g] :
          /\ m \notin Range(groups[g].middleware)
          /\ groups' = [groups EXCEPT ![g].middleware = Append(@, m),
                                      ![g].uses = @ + 1]
    /\ last' = None
    /\ UNCHANGED <<routeCalls, protocols,
                   routes, routeOrder, middleware, prePhase,
                   postPhase, staticHandler, wsRoutes, debug>>

CallGroupUse == GroupUseOf([g \in DOMAIN groups |-> GroupMwPool])

\* a faulty variant: the handler is wrapped with the middleware of every
\* group of the Handler
GroupRouteShared(g, pattern, name, methods) ==
    LET RECURSIVE All(_)
        All(ids) == IF ids = {} THEN <<>>
                    ELSE LET id == CHOOSE x \in ids : TRUE
                         IN groups[id].middleware \o All(ids \ {id})
        every == All(DOMAIN groups)
    IN Route(PathJoin(<<groups[g].prefix, pattern>>),
             [name |-> name, chain |-> WrapReverse(every, Len(every), <<>>),
              reg |-> groups[g].middleware],
             methods)

\* a faulty variant: the handler registered without the group's middleware
GroupRouteUnwrapped(g, pattern, name, methods) ==
    Route(PathJoin(<<groups[g].prefix, pattern>>),
          [name |-> name, chain |-> <<>>, reg |-> groups[g].middleware],
          methods)

\* Group.Route: the group's middleware is composed around the handler now
GroupRoute(g, pattern, name, methods) ==
    Route(PathJoin(<<groups[g].prefix, pattern>>),
          [name |-> name,
           chain |-> WrapReverse(groups[g].middleware,
                                 Len(groups[g].middleware), <<>>),
           reg |-> groups[g].middleware],
          methods)

CallGroupRoute(patterns, names) ==
    /\ CanSetup
    /\ \E g \in DOMAIN groups, q \in patterns, name \in names :
          LET r == GroupRoute(g, q, name, <<MethodGet>>)
          IN /\ routes' = r.routes
             /\ routeOrder' = r.routeOrder
             /\ routeCalls' = Recorded(r.routeOrder[Len(r.routeOrder)],
                                       <<MethodGet>>, name,
                                       Append(groups[g].parts, q))
    /\ last' = None
    /\ UNCHANGED <<protocols, middleware, groups, prePhase, postPhase,
                   staticHandler, wsRoutes, debug>>

\* ---- GetRegisteredRoutes ----
\* the orders in which a range over a Go map may visit the keys in set S
Orders(S) ==
    {q \in [1..Cardinality(S) -> S] : \A i, j \in DOMAIN q : i # j => q[i] # q[j]}

\* the lists GetRegisteredRoutes may return: the regular routes along
\* routeOrder, the WebSocket routes in map order, the file server entry
GetRegisteredRoutes ==
    LET regular == [i \in 1..Len(routeOrder) |->
                       [Pattern |-> routeOrder[i],
                        Methods |-> routes[routeOrder[i]].Methods,
                        Handler |-> "wrapHandler.func1"]]
        file == IF staticHandler = None THEN <<>>
                ELSE <<[Pattern |-> <<"/", "*">>, Methods |-> <<MethodGet>>,
                        Handler |-> <<"FileServer(", staticHandler[1].indexFile,
                                      ")">>]>>
    IN {regular \o [i \in DOMAIN q |->
                       [Pattern |-> q[i], Methods |-> <<MethodGet>>,
                        Handler |-> "WebSocket"]] \o file : q \in Orders(wsRoutes)}

\* ---- requests ----
Request(m, p, major, ct, conn, upg) ==
    [Method |-> m, Path |-> p, ProtoMajor |-> major, ContentType |-> ct,
     Connection |-> conn, Upgrade |-> upg, DebugKey |-> "", Body |-> "",
     Ctx |-> <<>>]

PlainRequests(paths) ==
    {Request(m, p, 1, <<"application/json">>, "keep-alive", "") :
        m \in {MethodGet, MethodPost}, p \in paths}

AllRequests ==
    {Request(m, p, major, ct, hs[1], hs[2]) :
        m \in {MethodGet, MethodPost, MethodDelete},
        p \in {PathX, PathXSlash},
        major \in {1, 2},
        ct \in {ContentTypeGRPC, <<"application/json">>},
        hs \in {<<"upgrade", "websocket">>, <<"keep-alive", "">>}}

\* Handler.ServeHTTP on one request, start to end
CallServeHTTP(requests) ==
    /\ \E req \in requests : \E res \in {ServeHTTP(req)} :
             /\ last' = Some([req |-> req, trace |-> res.trace, w |-> res.w,
                              rw |-> res.rw, errors |-> res.errors,
                              dumps |-> res.dumps,
                              enabled |-> <<debug.enableDebug, res.enableDebug>>])
             /\ debug' = [debug EXCEPT !.enableDebug = res.enableDebug]
    /\ UNCHANGED <<routeCalls, protocols,
                   routes, routeOrder, middleware, groups, prePhase,
                   postPhase, staticHandler, wsRoutes>>

\* ---- the goroutine WebSocketHandler.Handle starts per connection ----
MaxTasks == 2

\* "go func() { defer wsConn.Conn.Close(); defer cancel(); handleFunc(conn) }()"
\* just started: log lists what the goroutine did, in order
NewTask == [pc |-> "spawned", how |-> "", log |-> <<>>]

\* a faulty variant: cancel and Close called after handleFunc, not deferred,
\* so a panic passes them by
AfterHandlerNotDeferred(t, how) ==
    [t EXCEPT !.pc = IF how = "panic" THEN "exited" ELSE "returned",
              !.how = how, !.log = Append(@, how)]

\* handleFunc(conn) is over, by return or by panic: the deferred calls are due
AfterHandler(t, how) ==
    [t EXCEPT !.pc = "returned", !.how = how, !.log = Append(@, how)]

\* the deferred calls run last-registered first: cancel(), then Conn.Close();
\* after them the goroutine is gone (a panic then goes on up the stack)
Deferred(t) ==
    IF t.pc = "returned"
    THEN [t EXCEPT !.pc = "cancelled", !.log = Append(@, "cancel")]
    ELSE [t EXCEPT !.pc = "exited", !.log = Append(@, "close")]

\* the goroutines one run of ServeHTTP started
SpawnedBy(trace) ==
    [i \in 1..Len(SelectSeq(trace, LAMBDA e : e.ev = "ws.spawn")) |-> NewTask]

\* Handler.ServeHTTP on a request, with the goroutines it starts
CallServeUpgrade(requests) ==
    /\ Len(tasks) < MaxTasks
    /\ CallServeHTTP(requests)
    /\ tasks' = tasks \o SpawnedBy(last'[1].trace)
    /\ UNCHANGED <<inflight, server, mu, cache>>

\* the scheduler runs goroutine i: handleFunc(conn) is called
TaskRun(i) ==
    /\ tasks[i].pc = "spawned"
    /\ tasks' = [tasks EXCEPT ![i].pc = "running", ![i].log = Append(@, "run")]
    /\ UNCHANGED <<dispVars, inflight, server, mu, cache>>

\* handleFunc(conn) returns or panics
TaskHandlerEnds(i) ==
    /\ tasks[i].pc = "running"
    /\ \E how \in {"return", "panic"} :
          tasks' = [tasks EXCEPT ![i] = AfterHandler(@, how)]
    /\ UNCHANGED <<dispVars, inflight, server, mu, cache>>

\* one deferred call of goroutine i runs
TaskDeferred(i) ==
    /\ tasks[i].pc \in {"returned", "cancelled"}
    /\ tasks' = [tasks EXCEPT ![i] = Deferred(@)]
    /\ UNCHANGED <<dispVars, inflight, server, mu, cache>>

\* ---- Handler.Start ----
MaxConns == 2
\* "context.WithTimeout(context.Background(), 5*time.Second)"
GracePeriod == 5

\* signal.Notify(shutdownSignal, os.Interrupt, syscall.SIGTERM, syscall.SIGHUP),
\* and the cancellation of the handler's context
Triggers == {"SIGINT", "SIGTERM", "SIGHUP", "ctx.Done"}

\* before Start is called.  pc is the position of Start, result what it
\* returned, goroutine the position of the shutdown goroutine, trigger what
\* woke it, shutdownErr what srv.Shutdown returned, elapsed the seconds since
\* shutdownCtx was made, active and idle the open connections of srv (with
\* and without a request in flight), forced the connections Start closed under a
\* request in flight (no step of Start does)
NotStarted ==
    [pc |-> "idle", result |-> "", goroutine |-> "none", trigger |-> "",
     shutdownErr |-> "", elapsed |-> 0, active |-> 0, idle |-> 0, forced |-> 0]

StartVars == <<dispVars, inflight, tasks, mu, cache>>

\* Start up to the call of ListenAndServe: the goroutine is started
StartBegin ==
    /\ server.pc = "idle"
    /\ server' = [server EXCEPT !.pc = "started", !.goroutine = "select"]
    /\ UNCHANGED StartVars

\* srv.ListenAndServe(): it fails to bind and Start returns the error; or the
\* server is already shut down and it returns ErrServerClosed; or it serves
ListenAndServe ==
    /\ server.pc = "started"
    /\ \/ /\ server.goroutine = "select"
          /\ server' = [server EXCEPT !.pc = "returned", !.result = "bind error"]
       \/ /\ server.goroutine \in {"shutdown", "exited"}
          /\ server' = [server EXCEPT !.pc = "waiting"]
       \/ /\ server.goroutine = "select"
          /\ server' = [server EXCEPT !.pc = "serving"]
    /\ UNCHANGED StartVars

\* the listener accepts a connection and a request on it begins
Accept ==
    /\ server.pc = "serving"
    /\ server.goroutine = "select"
    /\ server.active + server.idle < MaxConns
    /\ server' = [server EXCEPT !.active = @ + 1]
    /\ UNCHANGED StartVars

\* a request in flight completes: the connection is idle, and Shutdown
\* closes idle connections as it finds them
RequestDone ==
    /\ server.active > 0
    /\ server' = [server EXCEPT !.active = @ - 1,
                                !.idle = IF server.goroutine = "shutdown"
                                         THEN @ ELSE @ + 1]
    /\ UNCHANGED StartVars

\* a signal arrives or a.ctx is cancelled: the select of the goroutine fires
Trigger(t) ==
    /\ server.goroutine = "select"
    /\ server.trigger = ""
    /\ server' = [server EXCEPT !.trigger = t]
    /\ UNCHANGED StartVars

\* the goroutine calls srv.Shutdown(shutdownCtx): the listener and the idle
\* connections are closed, ListenAndServe returns ErrServerClosed
ShutdownCall ==
    /\ server.goroutine = "select"
    /\ server.trigger # ""
    /\ server' = [server EXCEPT !.goroutine = "shutdown", !.idle = 0,
                                !.elapsed = 0,
                                !.pc = IF @ = "serving" THEN "waiting" ELSE @]
    /\ UNCHANGED StartVars

\* a second of the grace period passes
Tick ==
    /\ server.goroutine = "shutdown"
    /\ server.elapsed < GracePeriod
    /\ server.active > 0
    /\ server' = [server EXCEPT !.elapsed = @ + 1]
    /\ UNCHANGED StartVars

\* what srv.Shutdown(shutdownCtx) can return now: nil once no connection is
\* open, the context's error once the grace period is over
ShutdownResult(sv) ==
    (IF sv.active = 0 THEN {"nil"} ELSE {})
        \cup (IF sv.elapsed = GracePeriod THEN {"deadline exceeded"} ELSE {})

\* srv.Shutdown returns; its error is logged only; close(serverShutdown)
ShutdownReturn ==
    /\ server.goroutine = "shutdown"
    /\ \E err \in ShutdownResult(server) :
          server' = [server EXCEPT !.goroutine = "exited", !.shutdownErr = err]
    /\ UNCHANGED StartVars

\* "<-serverShutdown; return nil"
StartReturn ==
    /\ server.pc = "waiting"
    /\ server.goroutine = "exited"
    /\ server' = [server EXCEPT !.pc = "returned", !.result = "nil"]
    /\ UNCHANGED StartVars

\* ---- h.debug.mu, a sync.RWMutex, and the requests that use it ----
\* the requests in flight side by side: one through a route, two toggles
Workers == {"r1", "t1", "t2"}
TogglesFlag(t) == t \in {"t1", "t2"}
\* the value a toggle request asks for
Asked(t) == t = "t1"

\* no reader, no writer, no Lock pending; each request before its first step
\* (pc counts the steps done, seen is what its last isDebugEnabled returned)
NewMutex ==
    [readers |-> {}, writer |-> "", pending |-> {},
     pc |-> [t \in Workers |-> 0], seen |-> [t \in Workers |-> FALSE]]

\* isDebugEnabled(): RLock, the read, the deferred RUnlock
isDebugEnabled == <<"RLock", "load", "RUnlock">>

\* what wrapHandler and the writers do around a handler that answers with
\* RespondJSON: the request dump, WriteHeader, Write
AroundHandler(body) ==
    isDebugEnabled \o <<"log">> \o body
      \o <<"write">> \o isDebugEnabled \o <<"log">>
      \o isDebugEnabled \o <<"write">>

\* a faulty variant: the response is written before the lock is released
handleDebugToggleStepsLocked ==
    <<"decode", "Lock", "acquire", "store", "write", "Unlock">>

\* handleDebugToggle: decode the body, set the flag under the lock
handleDebugToggleSteps ==
    <<"decode", "Lock", "acquire", "store", "Unlock">>

\* the steps of a request, in order
Program(t) ==
    IF TogglesFlag(t) THEN AroundHandler(handleDebugToggleSteps)
    ELSE AroundHandler(<<>>)

Finished(t) == mu.pc[t] = Len(Program(t))
Instr(t) == IF Finished(t) THEN "done" ELSE Program(t)[mu.pc[t] + 1]

\* sync.RWMutex: RLock waits while a writer holds the lock or a Lock is
\* pending; Lock first announces itself, then waits for the lock to be free
CanStep(t) ==
    CASE Instr(t) = "done" -> FALSE
      [] Instr(t) = "RLock" -> mu.writer = "" /\ mu.pending = {}
      [] Instr(t) = "acquire" -> mu.writer = "" /\ mu.readers = {}
      [] OTHER -> TRUE

MutexVars == <<routeCalls, protocols, routes, routeOrder, middleware, groups,
               prePhase, postPhase, staticHandler, wsRoutes, last, inflight,
               tasks, server, cache>>

\* request t takes its next step
Step(t) ==
    /\ CanStep(t)
    /\ LET i == Instr(t)
           m == [mu EXCEPT !.pc[t] = @ + 1]
       IN /\ mu' = CASE i = "RLock" -> [m EXCEPT !.readers = @ \cup {t}]
                     [] i = "RUnlock" -> [m EXCEPT !.readers = @ \ {t}]
                     [] i = "load" -> [m EXCEPT !.seen[t] = debug.enableDebug]
                     [] i = "Lock" -> [m EXCEPT !.pending = @ \cup {t}]
                     [] i = "acquire" -> [m EXCEPT !.pending = @ \ {t},
                                                   !.writer = t]
                     [] i = "Unlock" -> [m EXCEPT !.writer = ""]
                     [] OTHER -> m
          /\ debug' = IF i = "store"
                      THEN [debug EXCEPT !.enableDebug = Asked(t)]
                      ELSE debug
    /\ UNCHANGED MutexVars

\* ---- pkg/cache: InMemoryCache ----
MaxClock == 4
\* the ttl and the cleanup frequency NewInMemoryCache is given, in clock units
TTL == 2
Keys == {"key1", "key2"}
Values == {"value1", "value2"}
Clients == {"c1", "c2"}

NoEntries == [k \in Keys |-> None]
\* (began remembers what the key's latest completed Set was when a Get
\* began, and is forgotten when a Set or a Delete of the key completes)
IdleClient == [pc |-> "idle", key |-> "", value |-> "", expiry |-> 0,
               entry |-> None, began |-> None]
IdlePurge == [pc |-> "idle", now |-> 0, todo |-> {}, victim |-> ""]

\* NewInMemoryCache(ttl, cleanupFreq), with the clock at 0.  data is the
\* sync.Map, stopped says stopChan is closed, cancelled that the context given
\* to StartCleanup is done, cleanup is the position of the cleanup goroutine;
\* set remembers for each key its latest completed Set unless a Delete
\* followed, op the last operation that returned, purges the purges done,
\* each with what the goroutine had observed when it began
NewInMemoryCache ==
    [data |-> NoEntries, now |-> 0, stopped |-> FALSE, cancelled |-> FALSE,
     cleanup |-> "none", purge |-> IdlePurge,
     clients |-> [c \in Clients |-> IdleClient],
     set |-> NoEntries,
     op |-> [name |-> "", key |-> "", value |-> "", found |-> FALSE],
     ticks |-> 0]

CacheVars == <<dispVars, inflight, tasks, server, mu>>

\* the entry Set stores at time now
Entry(value, now) == [value |-> value, expiresAt |-> now + TTL]

\* "time.Now().After(cacheEntry.expiresAt)"
Expired(e, now) == now > e.expiresAt

\* a faulty variant: Get returns whatever is stored
GetIgnoringExpiry(data, now, key) ==
    IF data[key] = None THEN [data |-> data, value |-> "", found |-> FALSE]
    ELSE [data |-> data, value |-> data[key][1].value, found |-> TRUE]

\* Get(ctx, key) run without interruption: the map afterwards and the result
Get(data, now, key) ==
    IF data[key] = None THEN [data |-> data, value |-> "", found |-> FALSE]
    ELSE IF Expired(data[key][1], now)
    THEN [data |-> [data EXCEPT ![key] = None], value |-> "", found |-> FALSE]
    ELSE [data |-> data, value |-> data[key][1].value, found |-> TRUE]

\* purgeExpiredEntries run without interruption
purgeExpiredEntries(data, now) ==
    [k \in Keys |->
        IF data[k] # None /\ Expired(data[k][1], now) THEN None ELSE data[k]]

\* the clients after a Set or a Delete of key has completed
Forgetting(clients, key) ==
    [c \in Clients |-> IF clients[c].key = key
                       THEN [clients[c] EXCEPT !.began = None]
                       ELSE clients[c]]

Returned(name, key, value, found) ==
    [name |-> name, key |-> key, value |-> value, found |-> found]

\* Set(ctx, key, value)
CacheSet(key, value) ==
    /\ cache' = [cache EXCEPT
                    !.data[key] = Some(Entry(value, cache.now)),
                    !.set[key] = Some(Entry(value, cache.now)),
                    !.op = Returned("Set", key, value, FALSE)]
    /\ UNCHANGED CacheVars

\* Get(ctx, key)
CacheGet(key) ==
    /\ \E r \in {Get(cache.data, cache.now, key)} :
          cache' = [cache EXCEPT !.data = r.data,
                                 !.op = Returned("Get", key, r.value, r.found)]
    /\ UNCHANGED CacheVars

\* Delete(ctx, key)
CacheDelete(key) ==
    /\ cache' = [cache EXCEPT !.data[key] = None, !.set[key] = None,
                              !.clients = Forgetting(cache.clients, key),
                              !.op = Returned("Delete", key, "", FALSE)]
    /\ UNCHANGED CacheVars

\* the clock moves on
Advance ==
    /\ cache.now < MaxClock
    /\ cache' = [cache EXCEPT !.now = @ + 1,
                              !.op = Returned("Advance", "", "", FALSE)]
    /\ UNCHANGED CacheVars

\* StartCleanup(ctx): the ticker and the goroutine are started
StartCleanup ==
    /\ cache.cleanup = "none"
    /\ cache' = [cache EXCEPT !.cleanup = "select",
                              !.op = Returned("StartCleanup", "", "", FALSE)]
    /\ UNCHANGED CacheVars

\* StopCleanup(): close(c.stopChan); it never blocks
StopCleanup ==
    /\ ~cache.stopped
    /\ cache' = [cache EXCEPT !.stopped = TRUE,
                              !.op = Returned("StopCleanup", "", "", FALSE)]
    /\ UNCHANGED CacheVars

\* the context given to StartCleanup is cancelled
CancelContext ==
    /\ ~cache.cancelled
    /\ cache' = [cache EXCEPT !.cancelled = TRUE,
                              !.op = Returned("cancel", "", "", FALSE)]
    /\ UNCHANGED CacheVars

\* the goroutine's select takes "case <-ticker.C": purgeExpiredEntries()
\* (select picks among the ready cases, so a tick can win over a closed
\* stopChan or a done context)
CleanupTick ==
    /\ cache.cleanup = "select"
    /\ cache.ticks < MaxClock
    /\ cache' = [cache EXCEPT
                    !.data = purgeExpiredEntries(cache.data, cache.now),
                    !.ticks = @ + 1,
                    !.op = Returned("purge", "", "", FALSE)]
    /\ UNCHANGED CacheVars

\* a faulty variant: the goroutine purges once more on its way out
AfterSignalPurging(c) ==
    [c EXCEPT !.cleanup = "exited",
              !.data = purgeExpiredEntries(c.data, c.now),
              !.op = Returned("purge", "", "", FALSE)]

\* "case <-ctx.Done()" or "case <-c.stopChan": ticker.Stop(); return
AfterSignal(c) ==
    [c EXCEPT !.cleanup = "exited", !.op = Returned("exit", "", "", FALSE)]

CleanupExit ==
    /\ cache.cleanup = "select"
    /\ cache.stopped \/ cache.cancelled
    /\ cache' = AfterSignal(cache)
    /\ UNCHANGED CacheVars

\* ---- the cache used by several goroutines: each call of sync.Map is
\* atomic, a method of the cache is not ----
\* Set, "expiry := time.Now().Add(c.ttl)"
SetBegin(c, key, value) ==
    /\ cache.clients[c].pc = "idle"
    /\ cache' = [cache EXCEPT
                    !.clients[c] = [IdleClient EXCEPT !.pc = "store", !.key = key,
                                                      !.value = value,
                                                      !.expiry = cache.now + TTL]]
    /\ UNCHANGED CacheVars

\* Set, "c.data.Store(key, cacheEntry{...})", and the return
SetStore(c) ==
    LET cl == cache.clients[c]
        e == [value |-> cl.value, expiresAt |-> cl.expiry]
    IN /\ cl.pc = "store"
       /\ cache' = [cache EXCEPT !.data[cl.key] = Some(e),
                                 !.set[cl.key] = Some(e),
                                 !.clients = [Forgetting(cache.clients, cl.key)
                                                 EXCEPT ![c] = IdleClient],
                                 !.op = Returned("Set", cl.key, cl.value, FALSE)]
       /\ UNCHANGED CacheVars

\* Get is called
GetBegin(c, key) ==
    /\ cache.clients[c].pc = "idle"
    /\ cache' = [cache EXCEPT
                    !.clients[c] = [IdleClient EXCEPT !.pc = "load", !.key = key,
                                                      !.began = cache.set[key]]]
    /\ UNCHANGED CacheVars

\* Get, "entry, ok := c.data.Load(key); if !ok { return nil, false }"
GetLoad(c) ==
    LET cl == cache.clients[c] IN
    /\ cl.pc = "load"
    /\ cache' = IF cache.data[cl.key] = None
                THEN [cache EXCEPT !.clients[c] = IdleClient,
                                   !.op = Returned("Get", cl.key, "", FALSE)]
                ELSE [cache EXCEPT !.clients[c].pc = "check",
                                   !.clients[c].entry = cache.data[cl.key]]
    /\ UNCHANGED CacheVars

\* Get, "if time.Now().After(cacheEntry.expiresAt)"; a live entry is returned
GetCheck(c) ==
    LET cl == cache.clients[c] IN
    /\ cl.pc = "check"
    /\ cache' = IF Expired(cl.entry[1], cache.now)
                THEN [cache EXCEPT !.clients[c].pc = "delete"]
                ELSE [cache EXCEPT
                         !.clients[c] = IdleClient,
                         !.op = Returned("Get", cl.key, cl.entry[1].value, TRUE)]
    /\ UNCHANGED CacheVars

\* Get, "c.data.Delete(key); return nil, false": Delete removes whatever the
\* map holds under the key now
GetDelete(c) ==
    LET cl == cache.clients[c] IN
    /\ cl.pc = "delete"
    /\ cache' = [cache EXCEPT !.data[cl.key] = None,
                              !.clients[c] = IdleClient,
                              !.op = Returned("Get", cl.key, "", FALSE)]
    /\ UNCHANGED CacheVars

\* the goroutine takes a tick: purgeExpiredEntries, "now := time.Now()"
PurgeBegin ==
    /\ cache.cleanup = "select"
    /\ cache.ticks < MaxClock
    /\ cache' = [cache EXCEPT !.cleanup = "purging", !.ticks = @ + 1,
                              !.purge = [pc |-> "range", now |-> cache.now,
                                         todo |-> Keys, victim |-> ""]]
    /\ UNCHANGED CacheVars

\* purgeExpiredEntries, Range hands a key and the entry it holds to the
\* callback, "if now.After(entry.expiresAt)"
PurgeVisit ==
    /\ cache.purge.pc = "range"
    /\ \E k \in cache.purge.todo :
          cache' = IF cache.data[k] # None /\ Expired(cache.data[k][1], cache.purge.now)
                   THEN [cache EXCEPT !.purge.pc = "delete", !.purge.victim = k,
                                      !.purge.todo = @ \ {k}]
                   ELSE [cache EXCEPT !.purge.todo = @ \ {k}]
    /\ UNCHANGED CacheVars

\* purgeExpiredEntries, "c.data.Delete(key)" in the callback
PurgeDelete ==
    /\ cache.purge.pc = "delete"
    /\ cache' = [cache EXCEPT !.data[cache.purge.victim] = None,
                              !.purge.pc = "range", !.purge.victim = ""]
    /\ UNCHANGED CacheVars

\* Range is over: back to the select
PurgeEnd ==
    /\ cache.purge.pc = "range"
    /\ cache.purge.todo = {}
    /\ cache' = [cache EXCEPT !.cleanup = "select", !.purge = IdlePurge,
                              !.op = Returned("purge", "", "", FALSE)]
    /\ UNCHANGED CacheVars

\* ---- a handler writing its response through the writer chain ----
MaxCalls == 4

\* the statuses and payloads a handler writes
WrittenStatuses == {StatusOK, StatusNotFound, StatusInternalServerError}
WrittenPayloads == {<<"a">>, <<"b", "c">>}

\* wrapHandler's writer chain around a fresh underlying writer
NewInflight ==
    [dw |-> [rw |-> NewResponseWriter, w |-> FreshWriter, buf |-> <<>>,
             dumps |-> <<>>],
     calls |-> <<>>]

\* the handler calls w.WriteHeader(status)
HandlerWriteHeader ==
    /\ Len(inflight.calls) < MaxCalls
    /\ \E status \in WrittenStatuses :
          inflight' =
              [dw |-> debugResponseWriterWriteHeader(inflight.dw, status,
                                                     debug.enableDebug),
               calls |-> Append(inflight.calls, WriteHeaderCall(status))]
    /\ UNCHANGED <<dispVars, tasks, server, mu, cache>>

\* the handler calls w.Write(b)
HandlerWrite ==
    /\ Len(inflight.calls) < MaxCalls
    /\ \E b \in WrittenPayloads :
          inflight' =
              [dw |-> debugResponseWriterWrite(inflight.dw, b,
                                               debug.enableDebug),
               calls |-> Append(inflight.calls, WriteCall(b))]
    /\ UNCHANGED <<dispVars, tasks, server, mu, cache>>

\* the client goes away: from now on the underlying Write returns 0
CloseCall == [op |-> "close", key |-> "", val |-> "", status |-> 0]
ConnectionClose ==
    /\ Len(inflight.calls) < MaxCalls
    /\ ~inflight.dw.w.closed
    /\ inflight' = [dw |-> [inflight.dw EXCEPT !.w.closed = TRUE],
                    calls |-> Append(inflight.calls, CloseCall)]
    /\ UNCHANGED <<dispVars, tasks, server, mu, cache>>

(***************************************************************************)
(*                          SPECIFICATIONS                                 *)
(***************************************************************************)
\* the components a specification does not exercise stay as constructed
WrIdle ==
    /\ inflight = NewInflight
    /\ tasks = <<>>
    /\ server = NotStarted
    /\ mu = NewMutex
    /\ cache = NewInMemoryCache
RidIdle ==
    /\ prefix = <<"localhost", "/", "q0J3xA9_kZ">>
    /\ counters = [i \in 0..(counterShards - 1) |-> 0]
    /\ reqs = [r \in Requests |-> NewRequest]
DispIdle == NewHandler(<<>>, <<>>, "")

\* protocol dispatch, routes, static fallback
Init == NewHandler(<<>>, <<PostQ1>>, "") /\ ErrInit /\ RidIdle /\ WrIdle
Next ==
    \/ CallUse /\ UNCHANGED <<errVars, ridVars, wrVars>>
    \/ CallRoute({"H"}) /\ UNCHANGED <<errVars, ridVars, wrVars>>
    \/ CallRegisterFileServer /\ UNCHANGED <<errVars, ridVars, wrVars>>
    \/ CallRegisterWSRoute /\ UNCHANGED <<errVars, ridVars, wrVars>>
    \/ CallServeHTTP(AllRequests) /\ UNCHANGED <<errVars, ridVars, wrVars>>
Spec == Init /\ [][Next]_vars

\* groups and middleware
NextGroups ==
    \/ CallUse /\ UNCHANGED <<errVars, ridVars, wrVars>>
    \/ CallHandlerGroup(GroupDefs) /\ UNCHANGED <<errVars, ridVars, wrVars>>
    \/ CallGroupGroup(GroupDefs) /\ UNCHANGED <<errVars, ridVars, wrVars>>
    \/ CallGroupUse /\ UNCHANGED <<errVars, ridVars, wrVars>>
    \/ CallGroupRoute({PathTest}, {"H"}) /\ UNCHANGED <<errVars, ridVars, wrVars>>
    \/ CallServeHTTP(PlainRequests({PathApiTest, PathApiV1Test}))
         /\ UNCHANGED <<errVars, ridVars, wrVars>>
SpecGroups == Init /\ [][NextGroups]_vars

\* a group route behind global middleware and pre-request functions
NestingMw == {Mw("A", TRUE), Mw("N", FALSE)}
NextNesting ==
    \/ CallUse /\ UNCHANGED <<errVars, ridVars, wrVars>>
    \/ CallAddPreRequestFunc /\ UNCHANGED <<errVars, ridVars, wrVars>>
    \/ HandlerGroupOf({d \in GroupDefs : d.id = "api"}, [id \in {"api"} |-> {<<>>}])
         /\ UNCHANGED <<errVars, ridVars, wrVars>>
    \/ GroupUseOf([g \in DOMAIN groups |-> NestingMw])
         /\ UNCHANGED <<errVars, ridVars, wrVars>>
    \/ CallGroupRoute({PathTest}, {"H"}) /\ UNCHANGED <<errVars, ridVars, wrVars>>
    \/ CallServeHTTP({q \in PlainRequests({PathApiTest}) : q.Method = MethodGet})
         /\ UNCHANGED <<errVars, ridVars, wrVars>>
SpecNesting == Init /\ [][NextNesting]_vars

\* sibling groups, each with middleware of its own, and a route registered
\* on the Handler itself
PathAdmin == <<"/", "admin">>
PathAdminTest == <<"/", "admin", "/", "test">>
SiblingDefs == GroupDefs \cup {[id |-> "admin", parent |-> "", prefix |-> PathAdmin]}
OwnMw ==
    [g \in {d.id : d \in SiblingDefs} |->
        CASE g = "api" -> {Mw("A", TRUE), Mw("B", TRUE)}
          [] g = "admin" -> {Mw("C", TRUE)}
          [] OTHER -> {Mw("D", TRUE)}]
NextSiblings ==
    \/ CallRoute({"H"}) /\ UNCHANGED <<errVars, ridVars, wrVars>>
    \/ HandlerGroupOf(SiblingDefs,
                      [id \in DOMAIN OwnMw |-> {<<>>} \cup {<<m>> : m \in OwnMw[id]}])
         /\ UNCHANGED <<errVars, ridVars, wrVars>>
    \/ CallGroupGroup(SiblingDefs) /\ UNCHANGED <<errVars, ridVars, wrVars>>
    \/ GroupUseOf(OwnMw) /\ UNCHANGED <<errVars, ridVars, wrVars>>
    \/ CallGroupRoute({PathTest}, {"H"}) /\ UNCHANGED <<errVars, ridVars, wrVars>>
    \/ CallServeHTTP({q \in PlainRequests({PathX, PathApiTest, PathApiV1Test,
                                            PathAdminTest}) : q.Method = MethodGet})
         /\ UNCHANGED <<errVars, ridVars, wrVars>>
SpecSiblings == Init /\ [][NextSiblings]_vars

\* the pre- and post-request phases
InitPhases ==
    /\ \E pre0 \in {<<>>, <<PreFunc("P1", "p1", NilError)>>},
          post0 \in {<<>>, <<PostQ1, PostQ2>>, <<PostQ2, PostQ1>>} :
              NewHandler(pre0, post0, "")
    /\ ErrInit
    /\ RidIdle
    /\ WrIdle
NextPhases ==
    \/ CallAddPreRequestFunc /\ UNCHANGED <<errVars, ridVars, wrVars>>
    \/ CallRoute(UserHandlers) /\ UNCHANGED <<errVars, ridVars, wrVars>>
    \/ CallServeHTTP(PlainRequests({PathX})) /\ UNCHANGED <<errVars, ridVars, wrVars>>
SpecPhases == InitPhases /\ [][NextPhases]_vars

\* the debug toggle
DebugRequests ==
    {[Request(MethodPost, PathToggle, 1, <<"application/json">>, "keep-alive", "")
         EXCEPT !.DebugKey = k, !.Body = b] :
        k \in {"", "k", "bad"},
        b \in {"{\"enable\":true}", "{\"enable\":false}", "{}", "garbage", ""}}
      \cup PlainRequests({PathToggle, PathHealth, PathX})
InitDebug ==
    /\ \E key \in {"", "k"} : NewHandler(<<>>, <<PostQ1>>, key)
    /\ ErrInit
    /\ RidIdle
    /\ WrIdle
NextDebug ==
    \/ CallUse /\ UNCHANGED <<errVars, ridVars, wrVars>>
    \/ CallRoute({"H"}) /\ UNCHANGED <<errVars, ridVars, wrVars>>
    \/ CallServeHTTP(DebugRequests) /\ UNCHANGED <<errVars, ridVars, wrVars>>
SpecDebug == InitDebug /\ [][NextDebug]_vars

\* group prefixes and patterns with stray separators
PathApiUsers == <<"/", "api", "/", "users">>
PathApiV1Users == <<"/", "api", "/", "v1", "/", "users">>
UntidyGroupDefs ==
    {[id |-> "api", parent |-> "", prefix |-> pfx] :
        pfx \in {PathApi, <<"/", "api", "/">>, <<"api", "/", "/">>}}
      \cup {[id |-> "v1", parent |-> "api", prefix |-> pfx] :
                pfx \in {<<"v1", "/">>, <<"/", "/", "v1">>}}
UntidyPatterns == {<<"/", "users">>, <<"users", "/">>, <<"/">>}
InitPaths ==
    /\ NewHandler(<<PreFunc("P1", "p1", NilError), PreFunc("P2", "p2", NilError)>>,
                  <<>>, "")
    /\ ErrInit
    /\ RidIdle
    /\ WrIdle
NextPaths ==
    \/ CallHandlerGroup(UntidyGroupDefs) /\ UNCHANGED <<errVars, ridVars, wrVars>>
    \/ CallGroupGroup(UntidyGroupDefs) /\ UNCHANGED <<errVars, ridVars, wrVars>>
    \/ CallGroupRoute(UntidyPatterns, {"users"})
         /\ UNCHANGED <<errVars, ridVars, wrVars>>
    \/ CallServeHTTP(PlainRequests({PathApiUsers, PathApiV1Users}))
         /\ UNCHANGED <<errVars, ridVars, wrVars>>
SpecPaths == InitPaths /\ [][NextPaths]_vars

\* WebSocket connections and their goroutines; the scheduler lets every
\* goroutine that can take a step take it eventually
UpgradeRequests ==
    {Request(m, p, 1, <<"application/json">>, hs[1], hs[2]) :
        m \in {MethodGet, MethodPost}, p \in {PathX, PathXSlash},
        hs \in {<<"upgrade", "websocket">>, <<"keep-alive", "">>}}
NextTasks ==
    \/ CallRegisterWSRoute /\ UNCHANGED <<errVars, ridVars, wrVars>>
    \/ CallServeUpgrade(UpgradeRequests) /\ UNCHANGED <<errVars, ridVars>>
    \/ \E i \in 1..MaxTasks :
          i <= Len(tasks) /\ TaskRun(i) /\ UNCHANGED <<errVars, ridVars>>
    \/ \E i \in 1..MaxTasks :
          i <= Len(tasks) /\ TaskHandlerEnds(i) /\ UNCHANGED <<errVars, ridVars>>
    \/ \E i \in 1..MaxTasks :
          i <= Len(tasks) /\ TaskDeferred(i) /\ UNCHANGED <<errVars, ridVars>>
Scheduling ==
    \A i \in 1..MaxTasks :
        WF_vars(i <= Len(tasks) /\ TaskDeferred(i) /\ UNCHANGED <<errVars, ridVars>>)
SpecTasks == Init /\ [][NextTasks]_vars /\ Scheduling

\* the life of Handler.Start
NextStart ==
    \/ StartBegin /\ UNCHANGED <<errVars, ridVars>>
    \/ ListenAndServe /\ UNCHANGED <<errVars, ridVars>>
    \/ Accept /\ UNCHANGED <<errVars, ridVars>>
    \/ RequestDone /\ UNCHANGED <<errVars, ridVars>>
    \/ (\E t \in Triggers : Trigger(t)) /\ UNCHANGED <<errVars, ridVars>>
    \/ ShutdownCall /\ UNCHANGED <<errVars, ridVars>>
    \/ Tick /\ UNCHANGED <<errVars, ridVars>>
    \/ ShutdownReturn /\ UNCHANGED <<errVars, ridVars>>
    \/ StartReturn /\ UNCHANGED <<errVars, ridVars>>
SpecStart == Init /\ [][NextStart]_vars

\* the cache used by one client at a time, with its cleanup goroutine; the
\* goroutine's select does not pass over a ready signal for ever
NextCache ==
    \/ (\E k \in Keys, v \in Values : CacheSet(k, v)) /\ UNCHANGED <<errVars, ridVars>>
    \/ (\E k \in Keys : CacheGet(k)) /\ UNCHANGED <<errVars, ridVars>>
    \/ (\E k \in Keys : CacheDelete(k)) /\ UNCHANGED <<errVars, ridVars>>
    \/ Advance /\ UNCHANGED <<errVars, ridVars>>
    \/ StartCleanup /\ UNCHANGED <<errVars, ridVars>>
    \/ StopCleanup /\ UNCHANGED <<errVars, ridVars>>
    \/ CancelContext /\ UNCHANGED <<errVars, ridVars>>
    \/ CleanupTick /\ UNCHANGED <<errVars, ridVars>>
    \/ CleanupExit /\ UNCHANGED <<errVars, ridVars>>
SelectIsFair == WF_vars(CleanupExit /\ UNCHANGED <<errVars, ridVars>>)
SpecCache == Init /\ [][NextCache]_vars /\ SelectIsFair

RaceKeys == {"key1"}
RaceValues == {"value1"}

\* the cleanup goroutine beside one client using one key
NextCleanup ==
    \/ (\E k \in RaceKeys, v \in RaceValues : CacheSet(k, v))
         /\ UNCHANGED <<errVars, ridVars>>
    \/ (\E k \in RaceKeys : CacheGet(k)) /\ UNCHANGED <<errVars, ridVars>>
    \/ (\E k \in RaceKeys : CacheDelete(k)) /\ UNCHANGED <<errVars, ridVars>>
    \/ Advance /\ UNCHANGED <<errVars, ridVars>>
    \/ StartCleanup /\ UNCHANGED <<errVars, ridVars>>
    \/ StopCleanup /\ UNCHANGED <<errVars, ridVars>>
    \/ CancelContext /\ UNCHANGED <<errVars, ridVars>>
    \/ CleanupTick /\ UNCHANGED <<errVars, ridVars>>
    \/ CleanupExit /\ UNCHANGED <<errVars, ridVars>>
SpecCleanup == Init /\ [][NextCleanup]_vars /\ SelectIsFair

\* the cache used by two goroutines and the cleanup goroutine at once
NextCacheRace ==
    \/ (\E c \in Clients, k \in RaceKeys, v \in RaceValues : SetBegin(c, k, v))
         /\ UNCHANGED <<errVars, ridVars>>
    \/ (\E c \in Clients : SetStore(c)) /\ UNCHANGED <<errVars, ridVars>>
    \/ (\E c \in Clients, k \in RaceKeys : GetBegin(c, k))
         /\ UNCHANGED <<errVars, ridVars>>
    \/ (\E c \in Clients : GetLoad(c)) /\ UNCHANGED <<errVars, ridVars>>
    \/ (\E c \in Clients : GetCheck(c)) /\ UNCHANGED <<errVars, ridVars>>
    \/ (\E c \in Clients : GetDelete(c)) /\ UNCHANGED <<errVars, ridVars>>
    \/ (\E k \in RaceKeys : CacheDelete(k)) /\ UNCHANGED <<errVars, ridVars>>
    \/ Advance /\ UNCHANGED <<errVars, ridVars>>
    \/ StartCleanup /\ UNCHANGED <<errVars, ridVars>>
    \/ PurgeBegin /\ UNCHANGED <<errVars, ridVars>>
    \/ PurgeVisit /\ UNCHANGED <<errVars, ridVars>>
    \/ PurgeDelete /\ UNCHANGED <<errVars, ridVars>>
    \/ PurgeEnd /\ UNCHANGED <<errVars, ridVars>>
SpecCacheRace == Init /\ [][NextCacheRace]_vars

\* upgrade requests against HTTP routes and WebSocket routes
NextUpgrade ==
    \/ CallRoute({"H"}) /\ UNCHANGED <<errVars, ridVars, wrVars>>
    \/ CallRegisterWSRoute /\ UNCHANGED <<errVars, ridVars, wrVars>>
    \/ CallServeUpgrade(UpgradeRequests) /\ UNCHANGED <<errVars, ridVars>>
SpecUpgrade == Init /\ [][NextUpgrade]_vars

\* registration and re-registration of routes, directly and through groups
NextRoutes ==
    \/ CallRoute(UserHandlers) /\ UNCHANGED <<errVars, ridVars, wrVars>>
    \/ CallHandlerGroup(GroupDefs) /\ UNCHANGED <<errVars, ridVars, wrVars>>
    \/ CallGroupRoute({PathTest}, {"H"}) /\ UNCHANGED <<errVars, ridVars, wrVars>>
    \/ CallRegisterWSRoute /\ UNCHANGED <<errVars, ridVars, wrVars>>
    \/ CallRegisterFileServer /\ UNCHANGED <<errVars, ridVars, wrVars>>
    \/ CallServeHTTP(PlainRequests({PathX, PathApiTest}))
         /\ UNCHANGED <<errVars, ridVars, wrVars>>
SpecRoutes == Init /\ [][NextRoutes]_vars

\* protocol detection on requests of every shape
DetectRequests ==
    {[Request(m, p, major, ct, hs[1], hs[2]) EXCEPT !.Body = b] :
        m \in {MethodGet, MethodPost},
        p \in {PathX, PathHealth},
        major \in {1, 2, 3},
        ct \in {ContentTypeGRPC, <<"application/grpc", "+proto">>,
                <<"application/json">>, <<"Application/GRPC">>, <<>>},
        hs \in {<<"upgrade", "websocket">>, <<"keep-alive", "">>},
        b \in {"", "garbage"}}
NextDetect ==
    \/ CallRegisterWSRoute /\ UNCHANGED <<errVars, ridVars, wrVars>>
    \/ CallServeHTTP(DetectRequests) /\ UNCHANGED <<errVars, ridVars, wrVars>>
SpecDetect == Init /\ [][NextDetect]_vars

\* a handler writing while other requests toggle the debug flag
ToggleRequests ==
    {[Request(MethodPost, PathToggle, 1, <<"application/json">>, "keep-alive", "")
         EXCEPT !.DebugKey = "k", !.Body = b] :
        b \in {"{\"enable\":true}", "{\"enable\":false}"}}
InitWriter ==
    NewHandler(<<>>, <<>>, "k") /\ ErrInit /\ RidIdle /\ WrIdle
NextWriter ==
    \/ HandlerWriteHeader /\ UNCHANGED <<errVars, ridVars>>
    \/ HandlerWrite /\ UNCHANGED <<errVars, ridVars>>
    \/ ConnectionClose /\ UNCHANGED <<errVars, ridVars>>
    \/ CallServeHTTP(ToggleRequests) /\ UNCHANGED <<errVars, ridVars, wrVars>>
SpecWriter == InitWriter /\ [][NextWriter]_vars

\* requests served with debug enabled and disabled, by handlers that write
\* a status, only a body, or nothing, with post-request functions that write
InitDumps ==
    /\ \E pre0 \in {<<>>, <<PreFunc("P1", "p1", NilError)>>},
          post0 \in {<<>>, <<PostQ2>>} : NewHandler(pre0, post0, "k")
    /\ ErrInit
    /\ RidIdle
    /\ WrIdle
NextDumps ==
    \/ CallRoute({"H", "S", "W"}) /\ UNCHANGED <<errVars, ridVars, wrVars>>
    \/ CallServeHTTP(ToggleRequests \cup PlainRequests({PathX}))
          /\ UNCHANGED <<errVars, ridVars, wrVars>>
SpecDumps == InitDumps /\ [][NextDumps]_vars

\* requests and toggles side by side
NextMutex ==
    \/ \E t \in Workers : Step(t) /\ UNCHANGED <<errVars, ridVars>>
SpecMutex == InitWriter /\ [][NextMutex]_vars

\* the error model
InitError == ErrInit /\ RidIdle /\ DispIdle /\ WrIdle
NextError ==
    \/ CallNewError /\ UNCHANGED <<ridVars, dispVars, wrVars>>
    \/ CallWithError /\ UNCHANGED <<ridVars, dispVars, wrVars>>
    \/ CallWithContext /\ UNCHANGED <<ridVars, dispVars, wrVars>>
    \/ CallWithDetail /\ UNCHANGED <<ridVars, dispVars, wrVars>>
    \/ CallWithField /\ UNCHANGED <<ridVars, dispVars, wrVars>>
    \/ CallWithMetadata /\ UNCHANGED <<ridVars, dispVars, wrVars>>
    \/ CallAddInternalLog /\ UNCHANGED <<ridVars, dispVars, wrVars>>
    \/ SetCode /\ UNCHANGED <<ridVars, dispVars, wrVars>>
    \/ CallError /\ UNCHANGED <<ridVars, dispVars, wrVars>>
SpecError == InitError /\ [][NextError]_vars

\* the builder methods alone, on errors of up to MaxBuilt details
NextBuilders ==
    \/ NewErrorOf({ErrCodeValidation, ErrCodeInternal}) /\ UNCHANGED <<ridVars, dispVars, wrVars>>
    \/ CallWithError /\ UNCHANGED <<ridVars, dispVars, wrVars>>
    \/ CallWithContext /\ UNCHANGED <<ridVars, dispVars, wrVars>>
    \/ WithDetailUpTo(MaxBuilt) /\ UNCHANGED <<ridVars, dispVars, wrVars>>
    \/ WithFieldUpTo(MaxBuilt) /\ UNCHANGED <<ridVars, dispVars, wrVars>>
    \/ CallWithMetadata /\ UNCHANGED <<ridVars, dispVars, wrVars>>
    \/ CallAddInternalLog /\ UNCHANGED <<ridVars, dispVars, wrVars>>
SpecBuilders == InitError /\ [][NextBuilders]_vars

\* the request-ID middleware
InitRequestID == RidInit /\ ErrInit /\ DispIdle /\ WrIdle
NextRequestID ==
    \/ \E r \in Requests : Arrive(r) /\ UNCHANGED <<errVars, dispVars, wrVars>>
    \/ \E r \in Requests : Count(r) /\ UNCHANGED <<errVars, dispVars, wrVars>>
    \/ \E r \in Requests : Inject(r) /\ UNCHANGED <<errVars, dispVars, wrVars>>
    \/ \E r \in Requests : Reenter(r) /\ UNCHANGED <<errVars, dispVars, wrVars>>
SpecRequestID == InitRequestID /\ [][NextRequestID]_vars

\* Start's chain: RequestID, then Handler.ServeHTTP; and ServeHTTP alone
ServedPaths == {PathHealth, PathX}
MapMerge(f, g) ==
    [k \in (DOMAIN f) \cup (DOMAIN g) |-> IF k \in DOMAIN g THEN g[k] ELSE f[k]]
\* next.ServeHTTP(w, r.WithContext(ctx)) with next the Handler
ServeNext(r) ==
    /\ reqs[r].pc = "next"
    /\ \E req \in PlainRequests(ServedPaths) : \E res \in {ServeHTTP(req)} :
          reqs' = [reqs EXCEPT ![r].pc = "served",
                               ![r].resp = MapMerge(@, res.w.header)]
    /\ UNCHANGED <<prefix, counters>>
\* the requests that go through the chain
Chained == {"r1"}
NextChain ==
    \/ \E r \in Chained : Arrive(r) /\ UNCHANGED <<errVars, dispVars, wrVars>>
    \/ \E r \in Chained : Count(r) /\ UNCHANGED <<errVars, dispVars, wrVars>>
    \/ \E r \in Chained : Inject(r) /\ UNCHANGED <<errVars, dispVars, wrVars>>
    \/ \E r \in Chained : ServeNext(r) /\ UNCHANGED <<errVars, dispVars, wrVars>>
    \/ CallRoute({"H"}) /\ UNCHANGED <<errVars, ridVars, wrVars>>
    \/ CallServeHTTP(PlainRequests(ServedPaths)) /\ UNCHANGED <<errVars, ridVars, wrVars>>
SpecChain == InitRequestID /\ [][NextChain]_vars

(***************************************************************************)
(*                    PROPERTIES OF THE ERROR MODEL                        *)
(***************************************************************************)
\* the AppError with e's Code, Message and StatusCode and nothing else
Scrubbed(e) ==
    [kind |-> "app", self |-> e.self, MainError |-> NilError, Code |-> e.Code,
     Message |-> e.Message, Details |-> <<>>, InternalLogs |-> <<>>,
     Context |-> BackgroundCtx, StatusCode |-> e.StatusCode]

\* C5: the response Handler.Error writes for an AppError is a function of its
\* Code, Message and StatusCode alone: the status is StatusCode, the body is
\* the envelope {ok: false, message, error: {code, message}} with no other
\* key, and an AppError that agrees on the three fields but carries no
\* Details, InternalLogs, MainError or Context gets the identical response.
C5_NoLeak ==
    errOut # None =>
        LET e == errOut[1].res.served
            w == errOut[1].res.writes
        IN /\ w = <<HeaderSet("Content-Type", "application/json"),
                    WriteHeaderCall(e.StatusCode),
                    WriteCall([ok |-> FALSE, message |-> e.Message,
                               error |-> [code |-> e.Code,
                                          message |-> e.Message]])>>
           /\ DOMAIN w[3].val = {"ok", "message", "error"}
           /\ DOMAIN w[3].val["error"] = {"code", "message"}
           /\ HandlerError(Scrubbed(e)).writes = w

\* C5 witness: an AppError with a detail (stack), an internal log, a cause and
\* a request context has been served
C5_Witness ==
    /\ errOut # None
    /\ errOut[1].arg.kind = "app"
    /\ errOut[1].arg.Details # <<>>
    /\ errOut[1].arg.Details[1].Context.Stack # <<>>
    /\ errOut[1].arg.InternalLogs # <<>>
    /\ errOut[1].arg.MainError # NilError
    /\ errOut[1].arg.Context # BackgroundCtx
    /\ errOut[1].arg.StatusCode # getHTTPStatusForErrorCode(errOut[1].arg.Code)

\* C6: right after NewError(c, m), for every code c, known or not, the error
\* has Code = c, Message = m, no Details, and StatusCode 400 for
\* VALIDATION_ERROR and BAD_REQUEST, 401 for UNAUTHORIZED, 404 for NOT_FOUND
\* and 500 for anything else.
C6_StatusMapping ==
    errOp.op = "NewError" =>
        /\ appErr.Code = errOp.code
        /\ appErr.Message = errOp.message
        /\ appErr.Details = <<>>
        /\ appErr.StatusCode =
              (IF errOp.code = "VALIDATION_ERROR" THEN 400
               ELSE IF errOp.code = "BAD_REQUEST" THEN 400
               ELSE IF errOp.code = "UNAUTHORIZED" THEN 401
               ELSE IF errOp.code = "NOT_FOUND" THEN 404
               ELSE 500)

\* C6 witness: NewError was called with NOT_FOUND
C6_Witness ==
    /\ errOp.op = "NewError"
    /\ errOp.code = ErrCodeNotFound
    /\ appErr.StatusCode = StatusNotFound

\* the number of calls of kind op in a sequence of writer calls
RECURSIVE CountOps(_, _)
CountOps(calls, op) ==
    IF calls = <<>> THEN 0
    ELSE (IF calls[1].op = op THEN 1 ELSE 0) + CountOps(Tail(calls), op)

\* C7: every call of Handler.Error ends after at most two invocations.  An
\* error that neither is nor wraps an AppError takes exactly two: it is
\* wrapped into an INTERNAL_ERROR AppError with MainError the original and
\* one InternalLogs entry, and the client gets status 500, code
\* INTERNAL_ERROR and the fixed message.  An AppError takes one.  Either way
\* exactly one status line and one body are written.
C7_ErrorRecursesOnce ==
    errOut # None =>
        LET a == errOut[1].arg
            r == errOut[1].res
            isApp == a.kind = "app" \/ (a.kind = "wrap" /\ a.inner.kind = "app")
        IN /\ r.calls \in {1, 2}
           /\ isApp => r.calls = 1
           /\ ~isApp =>
                /\ r.calls = 2
                /\ r.served.Code = "INTERNAL_ERROR"
                /\ r.served.Message = "An internal error occurred"
                /\ r.served.MainError = a
                /\ Len(r.served.InternalLogs) = 1
                /\ r.served.Details = <<>>
                /\ r.writes[2] = WriteHeaderCall(500)
                /\ r.writes[3].val["error"] =
                      [code |-> "INTERNAL_ERROR",
                       message |-> "An internal error occurred"]
                /\ r.writes[3].val["message"] = "An internal error occurred"
           /\ CountOps(r.writes, "WriteHeader") = 1
           /\ CountOps(r.writes, "Write") = 1
           /\ Len(r.logged) = 1

\* C7 witness: an errors.New value went through Handler.Error
C7_Witness ==
    /\ errOut # None
    /\ errOut[1].arg.kind = "plain"
    /\ errOut[1].res.calls = 2
    /\ errOut[1].res.writes[2].status = StatusInternalServerError

\* the builder methods of *AppError
Builders == {"WithError", "WithContext", "WithDetail", "WithField",
             "WithMetadata", "AddInternalLog"}

\* the status NewError computes from a code
StatusOfCode(code) ==
    IF code \in {"VALIDATION_ERROR", "BAD_REQUEST"} THEN 400
    ELSE IF code = "UNAUTHORIZED" THEN 401
    ELSE IF code = "NOT_FOUND" THEN 404
    ELSE 500

\* a step of a builder method, or an assignment to Code, leaves StatusCode
C26_StatusStep ==
    errOp'.op \in Builders \cup {"SetCode"} =>
        appErr'.StatusCode = appErr.StatusCode

\* StatusCode is the status of the code NewError was given, and Handler.Error
\* answers with it while the body carries the Code of the moment
C26_StatusOfOriginal ==
    /\ appErr.kind = "app" => appErr.StatusCode = StatusOfCode(errOp.made)
    /\ (errOut # None /\ errOut[1].arg.kind = "app") =>
          /\ errOut[1].arg = appErr
          /\ errOut[1].res.writes[2] = WriteHeaderCall(StatusOfCode(errOp.made))
          /\ errOut[1].res.writes[3].val["error"]["code"] = appErr.Code

\* C26: StatusCode is fixed at construction: no builder method changes it,
\* and after Code is assigned a new value Handler.Error still answers with
\* the status of the original code while serializing the new Code
C26_StatusFixed == []C26_StatusOfOriginal /\ [][C26_StatusStep]_vars

\* C26 witness: made with VALIDATION_ERROR, given a field detail, then Code set
\* to NOT_FOUND: Handler.Error answered 400 with code NOT_FOUND
C26_Witness ==
    /\ errOut # None
    /\ errOut[1].arg.kind = "app"
    /\ errOp.made = ErrCodeValidation
    /\ appErr.Code = ErrCodeNotFound
    /\ Len(appErr.Details) = 1 /\ appErr.Details[1].Field = "email"
    /\ errOut[1].res.writes[2].status = 400
    /\ errOut[1].res.writes[3].val["error"]["code"] = ErrCodeNotFound

\* sequence s is the beginning of sequence t, entry by entry under same(_, _)
Extends(t, s, same(_, _)) ==
    /\ Len(t) >= Len(s)
    /\ \A i \in 1..Len(s) : same(t[i], s[i])

SameDetail(d, c) ==
    d.Code = c.Code /\ d.Message = c.Message /\ d.Field = c.Field

\* by how much a builder lengthens Details and InternalLogs
Growth(op) ==
    CASE op \in {"WithDetail", "WithField"} -> <<1, 0>>
      [] op = "AddInternalLog" -> <<0, 1>>
      [] OTHER -> <<0, 0>>

\* a step of a builder method: the same instance comes back, Details and
\* InternalLogs keep what they had where it was, and grow as Growth says
C27_BuilderStep ==
    errOp'.op \in Builders =>
        /\ appErr'.self = appErr.self
        /\ Extends(appErr'.Details, appErr.Details, SameDetail)
        /\ Extends(appErr'.InternalLogs, appErr.InternalLogs,
                   LAMBDA x, y : x = y)
        /\ Len(appErr'.Details) = Len(appErr.Details) + Growth(errOp'.op)[1]
        /\ Len(appErr'.InternalLogs) =
              Len(appErr.InternalLogs) + Growth(errOp'.op)[2]

\* C27: the builders mutate in place and are append-only: each returns the
\* instance it was called on, Details and InternalLogs only grow and their
\* entries keep position, code, message and field; WithDetail and WithField
\* append one detail, AddInternalLog one log line, and WithError, WithContext
\* and WithMetadata leave both lengths as they were
C27_AppendOnly == [][C27_BuilderStep]_vars

\* C27 witness: WithDetail has just added a second detail, different from
\* the first, to an error that had a field detail and a log line
C27_Witness ==
    /\ errOp.op = "WithDetail"
    /\ Len(appErr.Details) = 2
    /\ appErr.Details[1].Field = "email"
    /\ appErr.Details[2].Message # appErr.Details[1].Message
    /\ Len(appErr.InternalLogs) = 1

\* e with the Field of its newest detail set to fld
SetLastField(e, fld) == [e EXCEPT !.Details[Len(e.Details)].Field = fld]

\* C28: WithField(field, message) leaves the error as WithDetail(
\* VALIDATION_ERROR, message) followed by setting the new detail's Field
\* does: the appended detail has code VALIDATION_ERROR, the message, a
\* timestamp, an empty metadata map and a captured call-stack snapshot
C28_FieldStep ==
    errOp'.op = "WithField" =>
        LET d == appErr'.Details[Len(appErr'.Details)]
        IN /\ Len(appErr'.Details) = Len(appErr.Details) + 1
           /\ d.Code = "VALIDATION_ERROR"
           /\ d.Message = errOp'.message
           /\ d.Field = errOp'.code
           /\ d.Context.Time = 1
           /\ d.Context.Metadata = EmptyMap
           /\ d.Context.Stack # <<>>
           /\ appErr' = SetLastField(WithDetail(appErr, ErrCodeValidation,
                                                errOp'.message, 1),
                                     errOp'.code)
C28_FieldIsSugar == [][C28_FieldStep]_vars

\* what does hold: the two differ in Field and in Stack, which WithField
\* leaves nil
C28_FieldButNoStack ==
    errOp.op = "WithField" =>
        LET d == appErr.Details[Len(appErr.Details)]
        IN /\ d.Code = "VALIDATION_ERROR"
           /\ d.Message = errOp.message
           /\ d.Field = errOp.code
           /\ d.Context.Metadata = EmptyMap
           /\ d.Context.Stack = <<>>

\* records a and b agree on every field but those in `but`
AgreeBut(a, b, but) ==
    /\ DOMAIN a = DOMAIN b
    /\ \A f \in (DOMAIN a) \ but : a[f] = b[f]

\* a step of WithMetadata(key, value): the same instance comes back; with no
\* details nothing changes; otherwise the newest detail's metadata has key
\* set to value and its other keys as before, and nothing else changes
C29_MetadataStep ==
    errOp'.op = "WithMetadata" =>
        LET n == Len(appErr.Details)
            key == errOp'.code
            value == errOp'.message
        IN /\ appErr'.self = appErr.self
           /\ n = 0 => appErr' = appErr
           /\ n > 0 =>
                /\ AgreeBut(appErr', appErr, {"Details"})
                /\ Len(appErr'.Details) = n
                /\ \A i \in 1..(n - 1) : appErr'.Details[i] = appErr.Details[i]
                /\ AgreeBut(appErr'.Details[n], appErr.Details[n], {"Context"})
                /\ AgreeBut(appErr'.Details[n].Context,
                            appErr.Details[n].Context, {"Metadata"})
                /\ LET new == appErr'.Details[n].Context.Metadata
                       old == appErr.Details[n].Context.Metadata
                   IN /\ DOMAIN new = (DOMAIN old) \cup {key}
                      /\ new[key] = value
                      /\ \A k \in (DOMAIN old) \ {key} : new[k] = old[k]

\* C29: WithMetadata(key, value) sets key to value in the metadata of the
\* most recently added detail only; the metadata of every earlier detail and
\* all other fields of the error are unchanged; on an error with no details
\* the call changes nothing and returns the same instance
C29_LastDetailOnly == [][C29_MetadataStep]_vars

\* C29 witness: WithMetadata on an error of two details has set the key in
\* the second detail and left the first without it
C29_Witness ==
    /\ errOp.op = "WithMetadata"
    /\ Len(appErr.Details) = 2
    /\ appErr.Details[1].Context.Metadata = EmptyMap
    /\ appErr.Details[2].Context.Metadata = MapSet(EmptyMap, "path", "v")

\* WithMetadata was called on an error with no details
C29_NoDetails ==
    errOp.op = "WithMetadata" /\ appErr.kind = "app" /\ appErr.Details = <<>>

(***************************************************************************)
(*                PROPERTIES OF THE REQUEST-ID MIDDLEWARE                  *)
(***************************************************************************)
\* the passes counted so far: <<request, pass number>>
Counted == {<<r, i>> : r \in Requests, i \in 1..MaxPasses} \cap
           {x \in Requests \X (1..MaxPasses) : x[2] <= Len(reqs[x[1]].ns)}
\* the passes that also produced their ID
Injected == {x \in Counted : x[2] <= Len(reqs[x[1]].ids)}
ShardOf(x) == reqs[x[1]].shards[x[2]]
ValueOf(x) == reqs[x[1]].ns[x[2]]
IDOf(x) == reqs[x[1]].ids[x[2]]

\* C8 (state part): every shard's counter equals the number of passes it
\* counted, the values it handed out are exactly 1..counter, each once, every
\* pass was counted by one shard of the 64, two passes counted by the same
\* shard have different generated IDs, and equal generated IDs come from
\* different shards.
C8_ShardHistory ==
    /\ DOMAIN counters = 0..63
    /\ \A s \in DOMAIN counters :
          LET here == {x \in Counted : ShardOf(x) = s}
          IN /\ counters[s] = Cardinality(here)
             /\ {ValueOf(x) : x \in here} = 1..counters[s]
    /\ \A x \in Counted : ShardOf(x) \in DOMAIN counters
    /\ \A x, y \in Injected :
          /\ (x # y /\ ShardOf(x) = ShardOf(y)) => IDOf(x) # IDOf(y)
          /\ (x # y /\ IDOf(x) = IDOf(y)) => ShardOf(x) # ShardOf(y)

\* C8 (step part): a step in which a request is counted raises exactly one
\* counter by exactly 1 and leaves the other 63 alone; every other step
\* leaves all counters alone; so no counter ever decreases or is reset.
C8_ShardStep ==
    LET countedNow == \E r \in Requests : Len(reqs'[r].ns) > Len(reqs[r].ns)
    IN /\ countedNow =>
            \E s \in DOMAIN counters :
                /\ counters'[s] = counters[s] + 1
                /\ \A t \in DOMAIN counters \ {s} : counters'[t] = counters[t]
       /\ ~countedNow => counters' = counters
       /\ \A s \in DOMAIN counters : counters'[s] >= counters[s]

\* C8: shard counters under any interleaving of requests through RequestID:
\* each request raises exactly one of the 64 counters by 1, counters never
\* decrease, a shard hands out 1, 2, 3, ... without repeats or gaps, requests
\* of one shard get different IDs, equal IDs imply different shards.
C8_ShardCounters == []C8_ShardHistory /\ [][C8_ShardStep]_vars

\* C8 witness: one shard has handed out 1 and 2, and two requests counted by
\* different shards hold the same generated ID
C8_Witness ==
    /\ \E s \in DOMAIN counters : counters[s] >= 2
    /\ \E x, y \in Injected :
          x # y /\ IDOf(x) = IDOf(y) /\ ShardOf(x) # ShardOf(y)

\* the chain E/id1/.../idk (id1/.../idk when E is empty)
RECURSIVE ChainOf(_, _)
ChainOf(start, ids) ==
    IF ids = <<>> THEN start
    ELSE ChainOf(IF start = <<>> THEN ids[1] ELSE start \o <<"/">> \o ids[1],
                 Tail(ids))

\* C9: after k >= 1 passes through RequestID the X-ReqId header reads the
\* incoming value followed by the k generated IDs in pass order, joined by
\* "/" (just the IDs when nothing came in), the context holds that same
\* value, each generated ID is prefix-counter with the counter zero-padded to
\* six digits, and every value the incoming header carried is still part of
\* the header: nothing is overwritten or dropped.
C9_Chaining ==
    \A r \in Requests :
        (reqs[r].pc = "next") =>
            LET q == reqs[r]
                expected == ChainOf(HeaderGet(q.orig), q.ids)
            IN /\ Len(q.ids) = q.passes
               /\ \A i \in 1..Len(q.ids) :
                     q.ids[i] = prefix \o <<"-">> \o ZeroPad(Decimal(q.ns[i]), 6)
               /\ HeaderGet(q.header) = expected
               /\ q.ctx = Some(expected)
               /\ \A i \in 1..Len(q.orig) :
                     \E j \in 1..Len(q.header) : Contains(q.header[j], q.orig[i])

\* the FNV-1a 64 hash of each remote address, modulo 64
ShardTable(a) ==
    CASE a = Addr1 -> 5
      [] a = Addr2 -> 34
      [] OTHER -> 34

\* C10 as stated: two requests from different remote addresses are counted
\* by different shard counters, and their IDs carry the same prefix.
C10_DifferentShards ==
    \A x, y \in Injected :
        (x[1] # y[1] /\ reqs[x[1]].addr # reqs[y[1]].addr) =>
            /\ ShardOf(x) # ShardOf(y)
            /\ SubSeq(IDOf(x), 1, Len(prefix)) = SubSeq(IDOf(y), 1, Len(prefix))

\* C10 amended: two requests from different remote addresses get IDs with
\* the same process prefix, and each is counted by the shard the FNV-1a hash
\* of its own address selects; different addresses may select the same shard,
\* and then the two requests draw different values from that one counter.
C10_ShardByAddress ==
    \A x, y \in Injected :
        (x[1] # y[1] /\ reqs[x[1]].addr # reqs[y[1]].addr) =>
            /\ SubSeq(IDOf(x), 1, Len(prefix)) = prefix
            /\ SubSeq(IDOf(y), 1, Len(prefix)) = prefix
            /\ ShardOf(x) = ShardTable(reqs[x[1]].addr)
            /\ ShardOf(y) = ShardTable(reqs[y[1]].addr)
            /\ (ShardOf(x) = ShardOf(y)) => ValueOf(x) # ValueOf(y)

\* C10 witness: two requests from different addresses in flight at once, one
\* pair on different shards and the state where a pair shares a shard
C10_Witness ==
    \E x, y \in Injected :
        /\ x[1] # y[1]
        /\ reqs[x[1]].addr # reqs[y[1]].addr
        /\ ShardOf(x) = ShardOf(y)
        /\ reqs[x[1]].pc = "next" /\ reqs[y[1]].pc = "next"

(***************************************************************************)
(*                    PROPERTIES OF THE DISPATCHER                         *)
(***************************************************************************)
\* the events of the given kinds in the last request's run, and their ids
EventsOf(kinds) == SelectSeq(last[1].trace, LAMBDA e : e.ev \in kinds)
IdsOf(kinds) == [i \in 1..Len(EventsOf(kinds)) |-> EventsOf(kinds)[i].id]
\* the request got past the global middleware: each one called next
Dispatched == \A i \in 1..Len(middleware) : middleware[i].next
SatisfiesGRPC(r) ==
    r.ProtoMajor = 2 /\ Contains(r.ContentType, <<"application/grpc">>)
SatisfiesWebSocket(r) == r.Connection = "upgrade" /\ r.Upgrade = "websocket"
RouteBranches == {"handler", "pre", "post", "static", "404", "405"}

\* C1: the registry is always gRPC then WebSocket.  A dispatched request that
\* satisfies a detector has Handle called exactly once, on gRPC if it
\* satisfies the gRPC detector and on WebSocket otherwise, and the dispatcher
\* runs no route handler, no pre- or post-request function, no static
\* handler and neither of its own not-found and method-not-allowed branches,
\* whether or not the path is a registered route.
C1_ProtocolFirst ==
    /\ protocols = <<"grpc", "ws">>
    /\ (last # None /\ Dispatched
          /\ (SatisfiesGRPC(last[1].req) \/ SatisfiesWebSocket(last[1].req))) =>
            /\ IdsOf({"handle"}) =
                  <<IF SatisfiesGRPC(last[1].req) THEN "grpc" ELSE "ws">>
            /\ EventsOf(RouteBranches) = <<>>

\* C1 witness: a request on the registered route /x that satisfies both
\* detectors went to gRPC
C1_Witness ==
    /\ last # None
    /\ SatisfiesGRPC(last[1].req) /\ SatisfiesWebSocket(last[1].req)
    /\ last[1].req.Path \in DOMAIN routes
    /\ isMethodAllowed(last[1].req.Method, routes[last[1].req.Path].Methods)
    /\ IdsOf({"handle"}) = <<"grpc">>

\* the names of a list of middleware, cut after the first that does not call
\* next
RECURSIVE UntilBlocked(_)
UntilBlocked(mws) ==
    IF mws = <<>> THEN <<>>
    ELSE IF mws[1].next THEN <<mws[1].name>> \o UntilBlocked(Tail(mws))
    ELSE <<mws[1].name>>

\* C2: a request matching a route registered through a group runs the global
\* middleware in the order of the Use calls, then the middleware the group
\* held at registration (the parent's first, then its own, in the order
\* added), then the handler, each exactly once, the run stopping at a
\* middleware that does not call next; with global G, group A, nested group B
\* and handler H that is G, A, B, H.
C2_MiddlewareOrder ==
    (/\ last # None
     /\ last[1].req.Path \in DOMAIN routes
     /\ isMethodAllowed(last[1].req.Method, routes[last[1].req.Path].Methods)) =>
        LET hd == routes[last[1].req.Path].Handler
            all == middleware \o hd.reg
            ran == IdsOf({"mw", "handler"})
        IN /\ ran = (IF \A i \in 1..Len(all) : all[i].next
                     THEN UntilBlocked(all) \o <<hd.name>>
                     ELSE UntilBlocked(all))
           /\ (middleware = <<Mw("G", TRUE)>>
                 /\ hd.reg = <<Mw("A", TRUE), Mw("B", TRUE)>>)
                => ran = <<"G", "A", "B", "H">>

\* C2 witness: G, A, B, H have run for GET /api/v1/test
C2_Witness ==
    /\ last # None
    /\ last[1].req.Path = PathApiV1Test
    /\ middleware = <<Mw("G", TRUE)>>
    /\ "api" \in DOMAIN groups /\ groups["api"].middleware = <<Mw("A", TRUE)>>
    /\ "v1" \in DOMAIN groups
    /\ groups["v1"].middleware = <<Mw("A", TRUE), Mw("B", TRUE)>>
    /\ IdsOf({"mw", "handler"}) = <<"G", "A", "B", "H">>

\* the context after the first n pre-request functions: the incoming
\* context with the marks of those that add one
RECURSIVE CtxAfter(_, _)
CtxAfter(n, ctx0) ==
    IF n = 0 THEN ctx0
    ELSE LET before == CtxAfter(n - 1, ctx0)
         IN IF prePhase[n].tag = "" THEN before
            ELSE Append(before, prePhase[n].tag)

\* the position of the first pre-request function that returns an error, or 0
FirstFailing ==
    IF \E i \in 1..Len(prePhase) : prePhase[i].err # NilError
    THEN CHOOSE i \in 1..Len(prePhase) :
            /\ prePhase[i].err # NilError
            /\ \A j \in 1..(i - 1) : prePhase[j].err = NilError
    ELSE 0

\* C3: for a matched route the pre-request functions run in registration
\* order, the i-th one receiving the context the (i-1)-th returned.  If none
\* fails, the handler receives the last returned context and the post-request
\* functions run.  If the k-th returns an error, exactly the first k ran, the
\* handler and the post-request functions did not, and Handler.Error was
\* called exactly once, with that error.
C3_PrePhase ==
    (/\ last # None
     /\ Dispatched
     /\ last[1].req.Path \in DOMAIN routes
     /\ isMethodAllowed(last[1].req.Method, routes[last[1].req.Path].Methods)) =>
        LET k == FirstFailing
            ranPre == EventsOf({"pre"})
            n == IF k = 0 THEN Len(prePhase) ELSE k
        IN /\ Len(ranPre) = n
           /\ \A i \in 1..n :
                 /\ ranPre[i].id = prePhase[i].name
                 /\ ranPre[i].arg = CtxAfter(i - 1, last[1].req.Ctx)
           /\ k = 0 =>
                 /\ Len(EventsOf({"handler"})) = 1
                 /\ EventsOf({"handler"})[1].arg =
                        CtxAfter(Len(prePhase), last[1].req.Ctx)
                 /\ IdsOf({"post"}) = [i \in 1..Len(postPhase) |-> postPhase[i].name]
                 /\ last[1].errors = <<>>
           /\ k > 0 =>
                 /\ EventsOf({"handler", "post", "mw"}) = <<>>
                 /\ Len(EventsOf({"Handler.Error"})) = 1
                 /\ last[1].errors = <<prePhase[k].err>>
                 /\ last[1].trace[Len(last[1].trace)].ev = "Handler.Error"

\* C3 witness: the third pre-request function failed after two that ran,
\* one of them having replaced the context, with post-request functions
\* registered
C3_Witness ==
    /\ last # None
    /\ FirstFailing = 3
    /\ Len(EventsOf({"pre"})) = 3
    /\ EventsOf({"pre"})[3].arg # <<>>
    /\ postPhase # <<>>
    /\ Len(prePhase) > 3
    /\ Len(last[1].errors) = 1

\* C4: a dispatched request that satisfies no detector, whose path is a
\* registered pattern and whose method is not among the route's methods, is
\* answered 405 with an Allow header that lists all the route's methods in
\* order, joined by ", ", and a body whose message is "Method not allowed";
\* the route handler and the pre- and post-request functions do not run.
C4_MethodNotAllowed ==
    (/\ last # None
     /\ Dispatched
     /\ ~SatisfiesGRPC(last[1].req) /\ ~SatisfiesWebSocket(last[1].req)
     /\ last[1].req.Path \in DOMAIN routes
     /\ \A i \in 1..Len(routes[last[1].req.Path].Methods) :
           routes[last[1].req.Path].Methods[i] # last[1].req.Method) =>
        LET ms == routes[last[1].req.Path].Methods
            w == last[1].w
        IN /\ w.status = 405
           /\ "Allow" \in DOMAIN w.header
           /\ Len(w.header["Allow"]) = 2 * Len(ms) - 1
           /\ \A i \in 1..Len(ms) : w.header["Allow"][2 * i - 1] = ms[i]
           /\ \A i \in 1..(Len(ms) - 1) : w.header["Allow"][2 * i] = ", "
           /\ Len(w.body) = 1
           /\ w.body[1]["message"] = "Method not allowed"
           /\ EventsOf({"handler", "pre", "post"}) = <<>>

\* C4 witness: DELETE /x on a route registered for GET and POST
C4_Witness ==
    /\ last # None
    /\ last[1].req.Path = PathX
    /\ PathX \in DOMAIN routes
    /\ routes[PathX].Methods = <<MethodGet, MethodPost>>
    /\ last[1].req.Method = MethodDelete
    /\ last[1].w.status = StatusMethodNotAllowed
    /\ last[1].w.header["Allow"] = <<"GET", ", ", "POST">>

(***************************************************************************)
(*                    PROPERTIES OF THE DEBUG TOGGLE                       *)
(***************************************************************************)
IsToggle(r) == r.Method = "POST" /\ r.Path = PathToggle
BodyDecodes(r) == r.Body \in {"{\"enable\":true}", "{\"enable\":false}", "{}"}
KeyRejected(r) == debug.authKey = "" \/ r.DebugKey = "" \/ r.DebugKey # debug.authKey

\* C11 (state part): a toggle request that reached the route is answered 401
\* when no key is configured, the header is absent or it differs from the
\* key, and 400 when the key is right and the body does not decode; both
\* answers are error envelopes.
C11_RejectionStatus ==
    (last # None /\ Dispatched /\ IsToggle(last[1].req)) =>
        /\ KeyRejected(last[1].req) =>
              /\ last[1].w.status = 401
              /\ last[1].w.body[1]["ok"] = FALSE
              /\ last[1].w.body[1]["error"]["code"] = "UNAUTHORIZED"
        /\ (~KeyRejected(last[1].req) /\ ~BodyDecodes(last[1].req)) =>
              /\ last[1].w.status = 400
              /\ last[1].w.body[1]["error"]["code"] = "BAD_REQUEST"

\* C11 (step part): the configured key never changes, and the flag changes
\* only in a step that serves a dispatched toggle request with the right key
\* and a decodable body; every other operation and every rejected toggle
\* leaves it as it was.
C11_FlagStep ==
    /\ debug'.authKey = debug.authKey
    /\ (debug'.enableDebug # debug.enableDebug) =>
          /\ last' # None
          /\ IsToggle(last'[1].req)
          /\ Dispatched
          /\ ~KeyRejected(last'[1].req)
          /\ BodyDecodes(last'[1].req)

\* C11: the flag starts disabled; a rejected toggle answers 401 (key not
\* configured, header absent or different) or 400 (right key, undecodable
\* body) and leaves the flag unchanged; no other operation changes the flag.
C11_ToggleRejection ==
    /\ debug.enableDebug = FALSE
    /\ []C11_RejectionStatus
    /\ [][C11_FlagStep]_vars

\* C11 witness: a toggle with a wrong key was answered 401 while debug was on
C11_Witness ==
    /\ last # None
    /\ IsToggle(last[1].req)
    /\ debug.authKey = "k"
    /\ last[1].req.DebugKey = "bad"
    /\ last[1].w.status = StatusUnauthorized
    /\ debug.enableDebug = TRUE

\* C12 as stated: serving a toggle request with the right key inverts the flag.
C12_Flips ==
    [][(last' # None /\ IsToggle(last'[1].req) /\ Dispatched
          /\ ~KeyRejected(last'[1].req) /\ BodyDecodes(last'[1].req))
        => debug'.enableDebug = ~debug.enableDebug]_vars

\* the flag a served toggle request leaves, and the answer it got
C12_SetStep ==
    (last' # None /\ IsToggle(last'[1].req) /\ Dispatched
       /\ ~KeyRejected(last'[1].req) /\ BodyDecodes(last'[1].req)) =>
        /\ debug'.enableDebug = (last'[1].req.Body = "{\"enable\":true}")
        /\ last'[1].w.status = 200
        /\ last'[1].w.body[1]["ok"] = TRUE
        /\ last'[1].w.body[1]["results"].debug_enabled = debug'.enableDebug

\* C12 amended: a toggle request with the right key and a decodable body
\* sets the flag to the body's "enable" value (false when the field is
\* absent) whatever the flag was, so enabling an enabled flag leaves it
\* enabled; the response's debug_enabled equals the flag after the request.
C12_SetsFlag == [][C12_SetStep]_vars

\* C12 witness: an accepted {"enable":true} has been served and debug is on
C12_Witness ==
    /\ last # None
    /\ IsToggle(last[1].req)
    /\ last[1].req.DebugKey = "k" /\ debug.authKey = "k"
    /\ last[1].req.Body = "{\"enable\":true}"
    /\ last[1].w.status = StatusOK
    /\ last[1].w.body[1]["results"].debug_enabled = TRUE
    /\ debug.enableDebug = TRUE


(***************************************************************************)
(*                 PROPERTIES OF THE RESPONSE WRITERS                      *)
(***************************************************************************)
\* the same calls made on a fresh writer chain with debug disabled throughout
RECURSIVE Replay(_, _)
Replay(dw, calls) ==
    IF calls = <<>> THEN dw
    ELSE Replay(IF Head(calls).op = "close"
                THEN [dw EXCEPT !.w.closed = TRUE]
                ELSE WrappedApply(dw, Head(calls), FALSE),
                Tail(calls))

RECURSIVE SumSeq(_)
SumSeq(q) == IF q = <<>> THEN 0 ELSE Head(q) + SumSeq(Tail(q))

\* the calls of the handler that can commit the response
Committing(calls) ==
    SelectSeq(calls, LAMBDA c : c.op \in {"WriteHeader", "Write"})

\* C13: whatever the handler writes and however debug toggles interleave
\* with its calls, the statuses passed to the underlying writer and the body
\* chunks it received, in order, are those of the same calls with debug
\* disabled throughout
C13_CaptureTransparent ==
    LET plain == Replay(NewInflight.dw, inflight.calls)
    IN /\ inflight.dw.w.whCalls = plain.w.whCalls
       /\ inflight.dw.w.status = plain.w.status
       /\ inflight.dw.w.body = plain.w.body
       /\ inflight.dw.w.returned = plain.w.returned

\* a body was captured and a dump logged while the handler wrote two chunks
C13_Witness ==
    /\ Len(inflight.dw.w.body) >= 2
    /\ inflight.dw.buf # <<>>
    /\ Len(inflight.dw.buf) < Len(inflight.dw.w.body)
    /\ inflight.dw.dumps # <<>>

\* C14: the underlying WriteHeader is invoked at most once; the recorded
\* status is that of the first WriteHeader, or 200 when a Write came first;
\* later WriteHeader calls change neither; the recorded size is the sum of
\* the byte counts the underlying Write calls returned
C14_CapturingWriter ==
    LET rw == inflight.dw.rw
        w == inflight.dw.w
        cs == Committing(inflight.calls)
    IN /\ Len(w.whCalls) <= 1
       /\ rw.committed <=> cs # <<>>
       /\ cs = <<>> => rw.status = StatusOK /\ w.whCalls = <<>>
       /\ cs # <<>> =>
            /\ rw.status = IF cs[1].op = "WriteHeader" THEN cs[1].status
                           ELSE StatusOK
            /\ w.whCalls = <<rw.status>>
            /\ w.status = rw.status
       /\ rw.size = SumSeq(w.returned)

\* a first WriteHeader, then a WriteHeader with another status and a Write,
\* the last on a connection that was closed: it returned 0
C14_Witness ==
    LET cs == Committing(inflight.calls)
    IN /\ Len(cs) = 3
       /\ cs[1].op = "WriteHeader"
       /\ cs[2].op = "WriteHeader"
       /\ cs[2].status # cs[1].status
       /\ cs[3].op = "Write"
       /\ inflight.dw.w.returned = <<0>>


(***************************************************************************)
(*              PROPERTIES OF THE DISPATCHER, CONTINUED                    *)
(***************************************************************************)
\* the last request was served by a registered route, its method allowed
RouteServed ==
    /\ last # None
    /\ last[1].req.Path \in DOMAIN routes
    /\ isMethodAllowed(last[1].req.Method, routes[last[1].req.Path].Methods)

\* C15 as stated: the middleware that runs for a route is what the global
\* list and the group's list held when the route was registered; a middleware
\* added with Handler.Use or Group.Use afterwards does not run for it
C15_FixedAtRegistration ==
    RouteServed =>
        LET route == routes[last[1].req.Path]
        IN IdsOf({"mw"}) = UntilBlocked(route.seen \o route.Handler.reg)

\* C15, amended: the group's middleware is fixed when the route is
\* registered, so a middleware added to the group afterwards does not run
\* for the route; the global list is composed on every request, so a
\* middleware added with Handler.Use afterwards does run for it
C15_GroupFixedGlobalLive ==
    RouteServed =>
        LET route == routes[last[1].req.Path]
            ran == IdsOf({"mw"})
        IN /\ ran = UntilBlocked(middleware \o route.Handler.reg)
           /\ \A m \in GroupMwPool :
                 m \notin Range(route.Handler.reg) => m.name \notin Range(ran)
           /\ Dispatched =>
                 \A i \in 1..Len(middleware) : middleware[i].name \in Range(ran)

\* G was added with Handler.Use and B with Group.Use after /api/test was
\* registered: G ran before A, B did not run
C15_Witness ==
    /\ RouteServed
    /\ last[1].req.Path = PathApiTest
    /\ routes[PathApiTest].seen = <<>>
    /\ routes[PathApiTest].Handler.reg = <<Mw("A", TRUE)>>
    /\ middleware = <<Mw("G", TRUE)>>
    /\ groups["api"].middleware = <<Mw("A", TRUE), Mw("B", TRUE)>>
    /\ IdsOf({"mw", "handler"}) = <<"G", "A", "H">>


\* the parent of a group, "" for a group made by Handler.Group
ParentOf(id) == (CHOOSE d \in GroupDefs : d.id = id).parent

\* the names of the middleware group g holds and group h does not
OnlyIn(g, h) ==
    {m.name : m \in Range(groups[g].middleware) \ Range(groups[h].middleware)}

\* a sub-group is created with its parent's list of that moment, and a later
\* change of one group's list changes no other group's
C16_CopyStep ==
    /\ \A id \in DOMAIN groups' \ DOMAIN groups :
          ParentOf(id) # "" =>
              groups'[id].middleware = groups[ParentOf(id)].middleware
    /\ \A g \in DOMAIN groups :
          groups'[g].middleware # groups[g].middleware =>
              \A h \in DOMAIN groups \ {g} :
                  groups'[h].middleware = groups[h].middleware

\* what ran for a route of one group holds nothing that only the other holds
C16_NoLeak ==
    (RouteServed /\ {"api", "v1"} \subseteq DOMAIN groups) =>
        /\ last[1].req.Path = PathApiV1Test =>
              Range(IdsOf({"mw"})) \cap OnlyIn("api", "v1") = {}
        /\ last[1].req.Path = PathApiTest =>
              Range(IdsOf({"mw"})) \cap OnlyIn("v1", "api") = {}

\* C16: Group.Group gives the sub-group a copy of the parent's middleware
\* list as it is at creation; middleware added to the parent afterwards never
\* runs for the routes of the sub-group, and middleware added to the
\* sub-group never runs for the routes of the parent
C16_SubGroupCopy == []C16_NoLeak /\ [][C16_CopyStep]_vars

\* the sub-group was made when the parent held A, the parent got B
\* afterwards, and a request to the sub-group's route ran A and not B
C16_Witness ==
    /\ RouteServed
    /\ last[1].req.Path = PathApiV1Test
    /\ groups["api"].middleware = <<Mw("A", TRUE), Mw("B", TRUE)>>
    /\ groups["v1"].middleware = <<Mw("A", TRUE)>>
    /\ Dispatched
    /\ IdsOf({"mw", "handler"}) =
          [i \in 1..Len(middleware) |-> middleware[i].name] \o <<"A", "H">>


\* the status the first committing call of a list of calls commits, 0 if none
CommittedBy(calls) ==
    LET cs == Committing(calls)
    IN IF cs = <<>> THEN 0
       ELSE IF cs[1].op = "WriteHeader" THEN cs[1].status ELSE StatusOK

\* the position of the handler's event in the run of the last request
HandlerAt ==
    CHOOSE i \in 1..Len(last[1].trace) : last[1].trace[i].ev = "handler"

\* C17: once the handler of a matched route has run, every post-request
\* function runs exactly once, in registration order, after the handler,
\* whatever status the handler committed; one that writes does not stop the
\* ones after it, and the status the handler committed stays the status the
\* client got and the status recorded
C17_PostPhase ==
    (RouteServed /\ EventsOf({"handler"}) # <<>>) =>
        LET tr == last[1].trace
            after == SubSeq(tr, HandlerAt + 1, Len(tr))
            committed ==
                CommittedBy(HandlerReply(routes[last[1].req.Path].Handler.name))
        IN /\ Len(EventsOf({"handler"})) = 1
           /\ IdsOf({"post"}) = [i \in 1..Len(postPhase) |-> postPhase[i].name]
           /\ after = EventsOf({"post"})
           /\ committed # 0 =>
                 /\ last[1].w.status = committed
                 /\ last[1].w.whCalls = <<committed>>
                 /\ last[1].rw.status = committed

\* the handler answered 500, then Q2 and Q1 ran; Q2's WriteHeader(404) was
\* ignored and its chunk followed the handler's
C17_Witness ==
    /\ RouteServed
    /\ routes[last[1].req.Path].Handler.name = "F"
    /\ postPhase = <<PostQ2, PostQ1>>
    /\ IdsOf({"handler", "post"}) = <<"F", "Q2", "Q1">>
    /\ last[1].w.status = StatusInternalServerError
    /\ Len(last[1].w.body) = 2


\* C18: a dispatched request that satisfies no detector and whose path is
\* not, as it came, a key of the route table goes to the static handler if
\* one is registered and is answered 404 otherwise; no route handler, no
\* pre- or post-request function and no method check runs for it, also when
\* the path differs from a registered pattern by a trailing slash only
C18_NotFoundFallThrough ==
    (/\ last # None
     /\ Dispatched
     /\ ~SatisfiesGRPC(last[1].req) /\ ~SatisfiesWebSocket(last[1].req)
     /\ last[1].req.Path \notin DOMAIN routes) =>
        /\ EventsOf({"handler", "pre", "post", "405", "handle"}) = <<>>
        /\ staticHandler # None =>
              /\ [i \in 1..Len(EventsOf({"static", "404"})) |->
                     EventsOf({"static", "404"})[i].ev] = <<"static">>
              /\ last[1].w = FreshWriter
        /\ staticHandler = None =>
              /\ [i \in 1..Len(EventsOf({"static", "404"})) |->
                     EventsOf({"static", "404"})[i].ev] = <<"404">>
              /\ last[1].w.status = StatusNotFound
              /\ last[1].w.whCalls = <<StatusNotFound>>

\* GET /x/ was answered 404 while /x is a registered route that allows GET
C18_Witness ==
    /\ last # None
    /\ Dispatched
    /\ last[1].req.Path = PathXSlash
    /\ last[1].req.Method = MethodGet
    /\ ~SatisfiesGRPC(last[1].req) /\ ~SatisfiesWebSocket(last[1].req)
    /\ PathX \in DOMAIN routes
    /\ isMethodAllowed(MethodGet, routes[PathX].Methods)
    /\ staticHandler = None
    /\ last[1].w.status = StatusNotFound


\* the Content-Type values of the requests that hold "application/grpc"
GRPCContentTypes == {<<"application/grpc">>, <<"application/grpc", "+proto">>}

\* what the gRPC detector answered for the last request
GRPCDetected == EventsOf({"detect"})[1].id = "grpc"
                  /\ EventsOf({"detect"})[1].arg = <<"true">>

\* the detector answers true exactly for major version 2 with a Content-Type
\* holding "application/grpc", whatever the method, path, body and other headers
C19_Answer ==
    last # None =>
        /\ EventsOf({"detect"}) # <<>>
        /\ GRPCDetected <=> (/\ last[1].req.ProtoMajor = 2
                             /\ last[1].req.ContentType \in GRPCContentTypes)

\* serving a request leaves the registry, the routes and the WebSocket
\* routes as they were
C19_ReadOnlyStep ==
    last' # None =>
        /\ protocols' = protocols
        /\ routes' = routes
        /\ wsRoutes' = wsRoutes
        /\ last'[1].req \in DetectRequests

\* C19: GRPCHandler.DetectProtocol is true if and only if the protocol major
\* version is 2 and the Content-Type header contains "application/grpc"; the
\* answer depends on nothing else and the call changes neither the request
\* nor the handler's state
C19_GRPCDetection == []C19_Answer /\ [][C19_ReadOnlyStep]_vars

\* a POST with a body, HTTP/2 and Content-Type application/grpc+proto on the
\* health route was detected as gRPC
C19_Witness ==
    /\ last # None
    /\ last[1].req.Method = MethodPost
    /\ last[1].req.Path = PathHealth
    /\ last[1].req.Body = "garbage"
    /\ last[1].req.ContentType = <<"application/grpc", "+proto">>
    /\ last[1].req.ProtoMajor = 2
    /\ GRPCDetected


\* how the dispatch of the last request ended
Outcomes == {"handle", "handler", "static", "404", "405", "Handler.Error"}

\* C20: on every request the global middleware runs in the order of the Use
\* calls, each once, up to the first that does not call next, and before
\* anything else happens: protocol detection, route lookup and what follows
\* them come after the last of them, whether the request ends in a protocol
\* handler, a 404, a 405, the static handler or a route handler.  When one
\* does not call next, nothing else runs and nothing is written.
C20_GlobalWrapsDispatch ==
    last # None =>
        LET tr == last[1].trace
            n == Len(UntilBlocked(middleware))
        IN /\ IdsOf({"mw"}) = UntilBlocked(middleware)
           /\ \A i \in 1..n : tr[i].ev = "mw"
           /\ Dispatched =>
                 /\ Len(tr) > n
                 /\ tr[n + 1].ev = "detect"
                 /\ EventsOf(Outcomes) # <<>>
           /\ ~Dispatched =>
                 /\ Len(tr) = n
                 /\ last[1].w = FreshWriter

\* G ran first for a request that gRPC then took on a path with a route
C20_Witness ==
    /\ last # None
    /\ middleware = <<Mw("G", TRUE)>>
    /\ last[1].req.Path \in DOMAIN routes
    /\ last[1].trace[1] = Ev("mw", "G", <<>>)
    /\ IdsOf({"handle"}) = <<"grpc">>

\* X did not call next: G and X ran and nothing else
C20_Blocked ==
    /\ last # None
    /\ middleware = <<Mw("G", TRUE), Mw("X", FALSE)>>
    /\ IdsOf({"mw"}) = <<"G", "X">>
    /\ Len(last[1].trace) = 2


\* a protocol handler took the last request
Claimed == last # None /\ EventsOf({"handle"}) # <<>>

\* C21 as stated: no middleware registered with Handler.Use executes for a
\* request that a protocol handler claims
C21_NoMiddlewareWhenClaimed == Claimed => EventsOf({"mw"}) = <<>>

\* C21, amended: for a request a protocol handler claims, every middleware
\* registered with Handler.Use has run, in order, before the protocol handler
\* was called; past that point the protocol handler alone owns the request:
\* the dispatcher makes no writer wrapper and runs no pre- or post-request
\* function, route handler, method check or fallback
C21_ClaimedAfterGlobal ==
    Claimed =>
        LET tr == last[1].trace
            n == Len(middleware)
        IN /\ Dispatched
           /\ [i \in 1..n |-> tr[i]] =
                 [i \in 1..n |-> Ev("mw", middleware[i].name, last[1].req.Ctx)]
           /\ IdsOf({"mw"}) = [i \in 1..n |-> middleware[i].name]
           /\ Len(EventsOf({"handle"})) = 1
           /\ EventsOf(RouteBranches) = <<>>
           /\ last[1].rw = NewResponseWriter
           /\ IdsOf({"handle"}) = <<"grpc">> => last[1].w = FreshWriter

\* G ran, then WebSocket took a request on a path that is also a route
C21_Witness ==
    /\ Claimed
    /\ middleware = <<Mw("G", TRUE)>>
    /\ IdsOf({"mw", "handle"}) = <<"G", "ws">>
    /\ last[1].req.Path \in DOMAIN routes
    /\ postPhase # <<>>


\* the number of Route calls made for pattern p
TimesCalled(p) ==
    Cardinality({i \in 1..Len(routeCalls.log) : routeCalls.log[i] = p})

\* the methods a Route call with these methods registers
Registers(methods) == IF methods = <<>> THEN <<MethodGet>> ELSE methods

\* C22: after any sequence of Route calls the handler and the methods of a
\* pattern are those of its last registration, a call without methods
\* registering GET only; GetRegisteredRoutes lists one entry per Route call,
\* in the order of the calls, a pattern registered n times n times and each
\* time with its latest methods, then the WebSocket routes and the file
\* server entry
C22_Reregistration ==
    /\ DOMAIN routes = DOMAIN routeCalls.lastOf
    /\ \A p \in DOMAIN routes :
          /\ routes[p].Methods = Registers(routeCalls.lastOf[p].methods)
          /\ routes[p].Handler.name = routeCalls.lastOf[p].name
    /\ (RouteServed /\ Dispatched) =>
          IdsOf({"handler"}) = <<routeCalls.lastOf[last[1].req.Path].name>>
    /\ \A list \in GetRegisteredRoutes :
          LET n == Len(routeCalls.log)
              rest == SubSeq(list, n + 1, Len(list))
          IN /\ Len(list) >= n
             /\ \A i \in 1..n :
                   /\ list[i].Pattern = routeCalls.log[i]
                   /\ list[i].Methods =
                         Registers(routeCalls.lastOf[routeCalls.log[i]].methods)
             /\ \A p \in DOMAIN routes :
                   Cardinality({i \in 1..n : list[i].Pattern = p}) = TimesCalled(p)
             /\ Len(rest) = Cardinality(wsRoutes)
                              + (IF staticHandler = None THEN 0 ELSE 1)
             /\ \A i \in 1..Len(rest) :
                   IF i <= Cardinality(wsRoutes)
                   THEN rest[i].Handler = "WebSocket"
                   ELSE rest[i].Pattern = <<"/", "*">>

\* /x was registered for GET and POST with H, then again without methods
\* with F: GET /x ran F, and the list shows /x twice with GET only, before
\* the WebSocket route and the file server entry
C22_Witness ==
    /\ RouteServed
    /\ last[1].req.Path = PathX
    /\ IdsOf({"handler"}) = <<"F">>
    /\ TimesCalled(PathX) >= 2
    /\ routeOrder = <<PathToggle, PathHealth, PathX, PathX>>
    /\ routes[PathX].Methods = <<MethodGet>>
    /\ wsRoutes # {}
    /\ staticHandler # None


\* the tokens of a path that are not separators
Names(p) == SelectSeq(p, LAMBDA t : t # Slash)

RECURSIVE NamesOfAll(_)
NamesOfAll(parts) ==
    IF parts = <<>> THEN <<>> ELSE Names(Head(parts)) \o NamesOfAll(Tail(parts))

\* the first part that is not empty
FirstPart(parts) == SelectSeq(parts, LAMBDA e : e # <<>>)[1]

\* C23: a route registered through groups with prefixes p1..pn and pattern q
\* is stored under the clean join of p1, ..., pn, q: their names in order,
\* one separator between two names, none doubled and none at the end, a
\* leading one exactly if the first part has one; GET /users under group
\* /api makes GET /api/users answer 200 with {"ok":true,"message":"users"}
C23_GroupPaths ==
    /\ \A p \in DOMAIN routes :
          LET parts == routeCalls.lastOf[p].parts
          IN Len(parts) > 1 =>
                /\ Names(p) = NamesOfAll(parts)
                /\ \A i \in 1..(Len(p) - 1) : ~(p[i] = Slash /\ p[i + 1] = Slash)
                /\ (p # <<Slash>>) => p[Len(p)] # Slash
                /\ (p[1] = Slash) <=> (FirstPart(parts)[1] = Slash)
                /\ Len(p) = 2 * Len(Names(p)) - (IF p[1] = Slash THEN 0 ELSE 1)
    /\ (/\ RouteServed
        /\ last[1].req.Path = PathApiUsers
        /\ routeCalls.lastOf[PathApiUsers].parts = <<PathApi, <<"/", "users">>>>) =>
          /\ last[1].w.status = StatusOK
          /\ last[1].w.body = <<[ok |-> TRUE, message |-> "users"]>>

\* the groups "/api/" and "//v1" and the pattern "users/" put the route
\* under /api/v1/users, and GET /api/v1/users was answered 200
C23_Witness ==
    /\ RouteServed
    /\ last[1].req.Path = PathApiV1Users
    /\ routeCalls.lastOf[PathApiV1Users].parts =
          <<<<"/", "api", "/">>, <<"/", "/", "v1">>, <<"users", "/">>>>
    /\ last[1].w.status = StatusOK


(***************************************************************************)
(*                    PROPERTIES OF THE GOROUTINES                         *)
(***************************************************************************)
\* how often step x is in the log of a goroutine
TimesIn(log, x) == Cardinality({k \in 1..Len(log) : log[k] = x})

\* step k of a log comes after the handler function was over
AfterTheHandler(log, k) ==
    \E j \in 1..(k - 1) : log[j] \in {"return", "panic"}

\* cancel and Close each happen at most once and never before the handler
\* function is over; a goroutine that is gone has done each exactly once
C24_CleanupOrder ==
    \A i \in 1..Len(tasks) :
        LET log == tasks[i].log
        IN /\ TimesIn(log, "cancel") <= 1
           /\ TimesIn(log, "close") <= 1
           /\ TimesIn(log, "run") <= 1
           /\ TimesIn(log, "return") + TimesIn(log, "panic") <= 1
           /\ \A k \in 1..Len(log) :
                 log[k] \in {"cancel", "close"} => AfterTheHandler(log, k)
           /\ tasks[i].pc = "exited" =>
                 TimesIn(log, "cancel") = 1 /\ TimesIn(log, "close") = 1

\* one goroutine per upgraded connection: serving a request starts one
\* exactly when the upgrade succeeded
C24_SpawnStep ==
    last' # None /\ last' # last =>
        Len(tasks') - Len(tasks) =
            Len(SelectSeq(last'[1].trace, LAMBDA e : e.ev = "ws.upgrade"))

\* a connection whose handler function is over is eventually closed
C24_EventuallyClosed ==
    \A i \in 1..MaxTasks :
        (i <= Len(tasks) /\ tasks[i].pc = "returned")
            ~> (i <= Len(tasks) /\ TimesIn(tasks[i].log, "close") = 1)

\* C24: every upgraded connection gets exactly one goroutine; when its
\* handler function is over, by return or by panic, the derived context is
\* cancelled and the connection closed, each exactly once and neither before
\* that moment, and the connection is eventually closed
C24_WebSocketCleanup ==
    []C24_CleanupOrder /\ [][C24_SpawnStep]_vars /\ C24_EventuallyClosed

\* two connections: one handler panicked and its goroutine has cancelled
\* and closed, the other handler is still running
C24_Witness ==
    /\ Len(tasks) = 2
    /\ \E i, j \in 1..2 :
          /\ tasks[i].log = <<"run", "panic", "cancel", "close">>
          /\ tasks[j].pc = "running"


\* Start returns nil only after a trigger and after the shutdown call has
\* returned, which it does within the grace period; a bind failure makes
\* Start return an error with no trigger needed
C25_ReturnsAfterShutdown ==
    /\ server.result = "nil" =>
          /\ server.trigger \in Triggers
          /\ server.shutdownErr \in {"nil", "deadline exceeded"}
          /\ server.elapsed <= GracePeriod
    /\ server.pc = "returned" => server.result \in {"nil", "bind error"}

\* C25: Start returns nil only after a shutdown trigger and after the
\* graceful shutdown call, bounded by the grace period, has returned, and
\* the connections then still open are forcibly closed; a bind failure makes
\* Start return an error without waiting for a trigger
C25_StartLifecycle ==
    /\ C25_ReturnsAfterShutdown
    /\ server.result = "nil" => server.active = 0 \/ server.forced > 0

\* Start has returned nil after a SIGTERM and a shutdown that ran out of
\* time, with a request still in flight on an open connection
C25_GraceExpired ==
    /\ server.result = "nil"
    /\ server.trigger = "SIGTERM"
    /\ server.shutdownErr = "deadline exceeded"
    /\ server.active > 0

\* Start has returned the bind error and no trigger has occurred
C25_BindFailure ==
    server.result = "bind error" /\ server.trigger = ""


(***************************************************************************)
(*                    PROPERTIES OF THE ENVELOPE                           *)
(***************************************************************************)
\* the response of the last request is a JSON envelope: RespondJSON and
\* Handler.Error set the content type and write the envelope first
EnvelopeWritten ==
    /\ last # None
    /\ "Content-Type" \in DOMAIN last[1].w.header
    /\ last[1].w.header["Content-Type"] = "application/json"
    /\ last[1].w.body # <<>>

\* C30: in every envelope RespondJSON or Handler.Error writes, ok is true
\* exactly when the response status is in [200,300); the 405 envelope and
\* every error envelope have ok false
C30_OkIffSuccess ==
    EnvelopeWritten =>
        LET env == last[1].w.body[1]
            status == last[1].w.status
        IN /\ env["ok"] \in BOOLEAN
           /\ env["ok"] <=> (status >= 200 /\ status < 300)
           /\ EventsOf({"405"}) # <<>> =>
                 status = 405 /\ env["ok"] = FALSE
           /\ last[1].errors # <<>> =>
                 /\ env["ok"] = FALSE
                 /\ "error" \in DOMAIN env
                 /\ status \in {400, 401, 404, 500}

\* C30 witness: a POST to a GET-only route got the 405 envelope
C30_Witness ==
    /\ EnvelopeWritten
    /\ EventsOf({"405"}) # <<>>
    /\ last[1].req.Method = MethodPost
    /\ last[1].w.status = 405
    /\ last[1].w.body[1]["ok"] = FALSE

\* a 200 envelope from a handler, and a 401 envelope from Handler.Error
C30_Success ==
    EnvelopeWritten /\ last[1].w.status = 200 /\ last[1].w.body[1]["ok"] = TRUE
C30_Unauthorized ==
    /\ EnvelopeWritten
    /\ last[1].errors # <<>>
    /\ last[1].w.status = 401
    /\ last[1].w.body[1]["ok"] = FALSE


(***************************************************************************)
(*                      PROPERTIES OF THE CACHE                            *)
(***************************************************************************)
\* a Get that finds its key: the key's latest Set is no more than ttl old,
\* no Delete followed it, and its value is the one returned; a Get that
\* meets an expired entry removes it
C31_GetStep ==
    (cache'.op.name = "Get" /\ cache'.op # cache.op) =>
        LET k == cache'.op.key IN
        /\ cache'.op.found =>
              /\ cache.set[k] # None
              /\ cache.now - (cache.set[k][1].expiresAt - TTL) <= TTL
              /\ cache'.op.value = cache.set[k][1].value
        /\ (cache.data[k] # None /\ cache.now > cache.data[k][1].expiresAt) =>
              ~cache'.op.found /\ cache'.data[k] = None

WrappedWith(b) == RouteServed /\ last[1].enabled = <<b, b>>

\* the explicit WriteHeader calls made on the wrapper during the last request
ExplicitHeaders ==
    LET name == routes[last[1].req.Path].Handler.name
        reply == IF name = "debugToggle"
                 THEN RespondJSON(StatusOK, "Debug mode updated", None)
                 ELSE HandlerReply(name)
        post == IF postPhase = <<>> THEN <<>> ELSE postPhase[1].calls
    IN SelectSeq(reply \o post, LAMBDA c : c.op = "WriteHeader")

\* C32: a routed request during which debug stays enabled logs exactly one
\* request dump, before any pre-request function, and exactly one response
\* dump, made when the header is committed, by WriteHeader or by the first
\* Write, and reporting the committed status; an ignored WriteHeader logs
\* none; while debug stays disabled nothing is dumped
C32_DebugDumps ==
    /\ WrappedWith(TRUE) =>
          /\ Len(EventsOf({"request dump"})) = 1
          /\ EventsOf({"request dump", "pre", "handler"})[1].ev = "request dump"
          /\ Len(last[1].dumps) = 1
          /\ last[1].dumps[1].status = last[1].w.status
    /\ WrappedWith(FALSE) =>
          EventsOf({"request dump"}) = <<>> /\ last[1].dumps = <<>>

\* what the wrapper does: with debug enabled one request dump first, and one
\* response dump for each explicit WriteHeader call, ignored or not, with
\* the status of that call; a commit by Write dumps nothing
C32_DumpPerWriteHeader ==
    /\ (WrappedWith(TRUE) /\ last[1].errors = <<>>) =>
          /\ Len(EventsOf({"request dump"})) = 1
          /\ EventsOf({"request dump", "pre", "handler"})[1].ev = "request dump"
          /\ last[1].dumps =
                [i \in 1..Len(ExplicitHeaders) |->
                    [status |-> ExplicitHeaders[i].status,
                     body |-> last[1].dumps[i].body]]
    /\ WrappedWith(FALSE) =>
          EventsOf({"request dump"}) = <<>> /\ last[1].dumps = <<>>

\* debug enabled, a handler that only writes a body: committed 200, no
\* response dump
C32_WriteOnly ==
    /\ WrappedWith(TRUE)
    /\ routes[last[1].req.Path].Handler.name = "W"
    /\ postPhase = <<>>
    /\ last[1].w.status = StatusOK
    /\ last[1].w.body # <<>>
    /\ last[1].dumps = <<>>

\* debug enabled, the handler answered 200 and a post-request function then
\* called WriteHeader(404): a second dump, reporting 404
C32_IgnoredHeaderDumped ==
    /\ WrappedWith(TRUE)
    /\ last[1].w.status = StatusOK
    /\ Len(last[1].dumps) = 2
    /\ last[1].dumps[2].status = StatusNotFound


(***************************************************************************)
(*                  PROPERTIES OF THE DEBUG-FLAG LOCK                      *)
(***************************************************************************)
IO == {"log", "decode", "write"}
Holds(t) == t \in mu.readers \/ mu.writer = t

\* C33: under any interleaving of requests and toggles every read of the
\* flag is under the read lock and every write under the write lock, no
\* lock is held (or asked for) by a request that is logging, decoding or
\* writing its response, and no interleaving deadlocks: while a request is
\* unfinished some request can take a step
C33_FlagLocking ==
    /\ \A t \in Workers :
          /\ Instr(t) = "load" => t \in mu.readers /\ mu.writer = ""
          /\ Instr(t) = "store" => mu.writer = t /\ mu.readers = {}
          /\ Instr(t) \in IO \cup {"done"} => ~Holds(t) /\ t \notin mu.pending
    /\ mu.writer # "" => mu.readers = {}
    /\ (\E t \in Workers : ~Finished(t)) => (\E t \in Workers : CanStep(t))

\* C33 witness: a request and a toggle that has set the flag hold the read
\* lock, the other toggle has asked for the write lock and waits
C33_Witness ==
    /\ mu.readers = {"r1", "t1"}
    /\ mu.pending = {"t2"}
    /\ ~CanStep("t2")
    /\ debug.enableDebug


(***************************************************************************)
(*                 PROPERTIES OF THE WEBSOCKET HANDLER                     *)
(***************************************************************************)
\* the events of the request just served
NewEvents(kinds) == SelectSeq(last'[1].trace, LAMBDA e : e.ev \in kinds)

\* a step that serves an upgrade request: with no WebSocket route on its
\* path it is answered 404, nothing is upgraded, no goroutine started and no
\* route handler run, whatever the HTTP route table holds; when the upgrade
\* fails no context is made and no goroutine started
C34_UpgradeStep ==
    (/\ last' # None /\ last' # last
     /\ SatisfiesWebSocket(last'[1].req)) =>
        /\ NewEvents({"handle"}) = <<Ev("handle", "ws", <<>>)>>
        /\ NewEvents({"handler", "pre", "post", "405", "static", "404"}) = <<>>
        /\ last'[1].req.Path \notin wsRoutes =>
              /\ last'[1].w.status = StatusNotFound
              /\ last'[1].w.body = <<[text |-> "WebSocket route not found"]>>
              /\ NewEvents({"ws.upgrade", "ws.upgradeFailed", "ws.spawn"}) = <<>>
              /\ tasks' = tasks
        /\ NewEvents({"ws.upgradeFailed"}) # <<>> =>
              /\ NewEvents({"ws.upgrade", "ws.spawn"}) = <<>>
              /\ tasks' = tasks

\* C34: an upgrade request on a path with no WebSocket route is answered 404
\* without an upgrade and without a handler task, also when an HTTP route is
\* registered on that path; a failed upgrade spawns no task and makes no
\* context
C34_RoutingErrors == [][C34_UpgradeStep]_vars

\* C34 witness: /x is an HTTP route and no WebSocket route, and an upgrade
\* request on /x was answered 404
C34_Witness ==
    /\ last # None
    /\ SatisfiesWebSocket(last[1].req)
    /\ last[1].req.Path = PathX
    /\ last[1].req.Method = MethodGet
    /\ PathX \in DOMAIN routes
    /\ PathX \notin wsRoutes
    /\ last[1].w.status = StatusNotFound
    /\ tasks = <<>>

\* an upgrade request on a WebSocket route failed to upgrade
C34_UpgradeFailed ==
    /\ last # None
    /\ EventsOf({"ws.upgradeFailed"}) # <<>>
    /\ tasks = <<>>


(***************************************************************************)
(*            THE REQUEST ID AND THE RESPONSE HEADER                       *)
(***************************************************************************)
\* w.Header().Get("X-ReqId") of a response header
ResponseReqId(h) == IF "X-ReqId" \in DOMAIN h THEN h["X-ReqId"] ELSE ""

\* C35: the request ID is never written to the response: the response of
\* Handler.ServeHTTP alone has an empty X-ReqId header, and a request that
\* went through RequestID has the ID on its request header and in its
\* context and an empty X-ReqId response header, before and after the
\* Handler served it
C35_NotOnResponse ==
    /\ last # None => ResponseReqId(last[1].w.header) = ""
    /\ \A r \in Requests :
          /\ ResponseReqId(reqs[r].resp) = ""
          /\ reqs[r].pc \in {"next", "served"} =>
                /\ reqs[r].ctx # None
                /\ HeaderGet(reqs[r].header) = reqs[r].ctx[1]
                /\ HeaderGet(reqs[r].header) # <<>>

\* C35 witness: a request went through RequestID and was answered by a
\* route's handler; another was served by ServeHTTP alone
C35_Witness ==
    /\ \E r \in Chained :
          /\ reqs[r].pc = "served"
          /\ reqs[r].ctx # None
          /\ "Content-Type" \in DOMAIN reqs[r].resp
    /\ last # None
    /\ last[1].w.status = StatusOK


(***************************************************************************)
(*                       GROUP ISOLATION                                   *)
(***************************************************************************)
\* the group a served path was registered through, "" for the Handler itself
GroupOfPath(p) ==
    CASE p = PathApiTest -> "api"
      [] p = PathApiV1Test -> "v1"
      [] p = PathAdminTest -> "admin"
      [] OTHER -> ""
\* the group that group id was created from, "" for a group of the Handler
MadeFrom(id) == (CHOOSE d \in SiblingDefs : d.id = id).parent
\* the part of group g's list that it was created with
CreatedWith(g) ==
    SubSeq(groups[g].middleware, 1, Len(groups[g].middleware) - groups[g].uses)
\* the names of the middleware the application adds to the groups
GroupMwNames == {m.name : m \in UNION {OwnMw[g] : g \in DOMAIN OwnMw}}

\* C36: a middleware added to group o that ran for a route ran for a route
\* registered through o when o held it, or through a sub-group that was
\* created from o when o held it; none runs for a route of a sibling group,
\* of the parent group or of the Handler itself; and when the request is
\* handed to the route, all the middleware its group held at registration
\* ran, in the group's order
C36_GroupIsolation ==
    RouteServed =>
        LET p == last[1].req.Path
            g == GroupOfPath(p)
            reg == routes[p].Handler.reg
            ran == IdsOf({"mw"})
        IN /\ \A o \in DOMAIN OwnMw : \A m \in OwnMw[o] :
                 m.name \in Range(ran) =>
                     /\ m \in Range(reg)
                     /\ \/ g = o
                        \/ /\ g # ""
                           /\ MadeFrom(g) = o
                           /\ m \in Range(CreatedWith(g))
           /\ g = "" => Range(ran) \cap GroupMwNames = {}
           /\ Dispatched =>
                 SelectSeq(ran, LAMBDA n : n \in GroupMwNames)
                     = [i \in 1..Len(reg) |-> reg[i].name]

\* C36 witness: api holds A and B, its sub-group v1 was created when api held
\* A only and got D, admin holds C; the route of admin was served and only C
\* of the group middleware ran
C36_Witness ==
    /\ RouteServed
    /\ {"api", "admin", "v1"} \subseteq DOMAIN groups
    /\ groups["api"].middleware = <<Mw("A", TRUE), Mw("B", TRUE)>>
    /\ groups["v1"].middleware = <<Mw("A", TRUE), Mw("D", TRUE)>>
    /\ groups["admin"].middleware = <<Mw("C", TRUE)>>
    /\ last[1].req.Path = PathAdminTest
    /\ Dispatched
    /\ SelectSeq(IdsOf({"mw", "handler"}), LAMBDA n : n \in GroupMwNames \cup {"H"})
          = <<"C", "H">>

\* the route of the sub-group ran what the sub-group held, and not B
C36_SubGroupServed ==
    /\ RouteServed
    /\ "v1" \in DOMAIN groups
    /\ groups["api"].middleware = <<Mw("A", TRUE), Mw("B", TRUE)>>
    /\ last[1].req.Path = PathApiV1Test
    /\ Dispatched
    /\ SelectSeq(IdsOf({"mw"}), LAMBDA n : n \in GroupMwNames) = <<"A", "D">>


(***************************************************************************)
(*                 THE PHASES AROUND A GROUP ROUTE                         *)
(***************************************************************************)
\* the pre-request functions that are called: up to the first that fails
RECURSIVE UntilFailed(_)
UntilFailed(fs) ==
    IF fs = <<>> THEN <<>>
    ELSE IF fs[1].err.kind # "nil" THEN <<fs[1].name>>
    ELSE <<fs[1].name>> \o UntilFailed(Tail(fs))
AllPass(mws) == \A i \in 1..Len(mws) : mws[i].next
NoneFails(fs) == \A i \in 1..Len(fs) : fs[i].err.kind = "nil"

\* what runs for a request to a group route, in order
NestingOrder(global, pre, group, name, post) ==
    UntilBlocked(global)
      \o (IF ~AllPass(global) THEN <<>>
          ELSE UntilFailed(pre)
                 \o (IF ~NoneFails(pre) THEN <<>>
                     ELSE UntilBlocked(group)
                            \o (IF AllPass(group) THEN <<name>> ELSE <<>>)
                            \o [i \in 1..Len(post) |-> post[i].name]))

\* C37: for a request matched by a group route the global middleware runs
\* first, then the pre-request functions, then the group's middleware, then
\* the handler, then the post-request functions; a pre-request error keeps
\* every group middleware from running, and a group middleware that does not
\* call next skips the handler and the post-request functions still run
C37_GroupRouteNesting ==
    (RouteServed /\ last[1].req.Path = PathApiTest) =>
        LET hd == routes[PathApiTest].Handler
            ran == IdsOf({"mw", "pre", "handler", "post"})
            names == {m.name : m \in NestingMw}
        IN /\ ran = NestingOrder(middleware, prePhase, hd.reg, hd.name, postPhase)
           /\ (Dispatched /\ ~NoneFails(prePhase)) =>
                 /\ Range(ran) \cap names = {}
                 /\ hd.name \notin Range(ran)
           /\ (Dispatched /\ NoneFails(prePhase) /\ ~AllPass(hd.reg)) =>
                 /\ hd.name \notin Range(ran)
                 /\ \A i \in 1..Len(postPhase) : postPhase[i].name \in Range(ran)

\* C37 witness: G, the two pre-request functions, A, then N of the group that
\* does not call next: the handler did not run, the post-request function did
C37_Witness ==
    /\ RouteServed
    /\ last[1].req.Path = PathApiTest
    /\ IdsOf({"mw", "pre", "handler", "post"}) = <<"G", "builtin", "P1", "A", "N", "Q1">>

\* a pre-request function failed: no group middleware and no handler ran
C37_PreFailed ==
    /\ RouteServed
    /\ last[1].req.Path = PathApiTest
    /\ routes[PathApiTest].Handler.reg = <<Mw("A", TRUE)>>
    /\ IdsOf({"mw", "pre", "handler", "post"}) = <<"G", "builtin", "Pdeny">>

\* everything passed: the full order
C37_AllRan ==
    /\ RouteServed
    /\ last[1].req.Path = PathApiTest
    /\ IdsOf({"mw", "pre", "handler", "post"}) = <<"G", "builtin", "P1", "A", "H", "Q1">>


(***************************************************************************)
(*                 THE CACHE UNDER CONCURRENT USE                          *)
(***************************************************************************)
\* a Get of client c returns in this step
GetReturns(c) ==
    /\ cache.clients[c].pc \in {"load", "check", "delete"}
    /\ cache'.clients[c].pc = "idle"

\* a Get that began after Set(key, v) had completed, with no Set or Delete
\* of the key since and ttl not elapsed since that Set, returns v
C38_GetStep ==
    \A c \in Clients :
        GetReturns(c) =>
            LET k == cache.clients[c].key
                e == cache.clients[c].began
            IN (e # None /\ ~Expired(e[1], cache.now)) =>
                   cache'.op = Returned("Get", k, e[1].value, TRUE)

\* C38: cache writes are not lost to concurrent expiry handling: for any
\* interleaving of Set, Get and purgeExpiredEntries on one key, once
\* Set(key, v) has completed, Get(key) returns v until ttl has elapsed since
\* that Set or Delete(key) is called
C38_WritesNotLost == [][C38_GetStep]_vars

(***************************************************************************)
(*                    THE CACHE CLEANUP GOROUTINE                          *)
(***************************************************************************)
\* the step is the return of operation name
CacheStepOf(name) == cache' # cache /\ cache'.op.name = name

\* a purge is the goroutine taking a tick out of its select; StartCleanup
\* and StopCleanup leave the entries as they are
C39_Step ==
    /\ CacheStepOf("purge") =>
          /\ cache.cleanup = "select"
          /\ cache'.cleanup = "select"
          /\ cache'.ticks = cache.ticks + 1
          /\ cache'.data = purgeExpiredEntries(cache.data, cache.now)
    /\ cache'.data # cache.data =>
          cache'.op.name \in {"Set", "Get", "Delete", "purge"}
    /\ (CacheStepOf("StartCleanup") \/ CacheStepOf("StopCleanup")) =>
          cache'.data = cache.data
    /\ cache.cleanup = "exited" => cache'.cleanup = "exited"

\* C39: the goroutine started by StartCleanup purges only on ticks, purges no
\* more once it has taken the stop or the cancel out of its select, and
\* terminates eventually once the context is cancelled or StopCleanup was
\* called; StopCleanup can be called whether StartCleanup was called or not
\* and whether the goroutine still runs or not; neither call alters entries
C39_CleanupLifecycle ==
    /\ [][C39_Step]_vars
    /\ [](~cache.stopped => ENABLED StopCleanup)
    /\ ((cache.cleanup = "select" /\ (cache.stopped \/ cache.cancelled))
           ~> cache.cleanup = "exited")

\* C39 witness: the goroutine has purged an expired entry on a tick, then
\* StopCleanup was called and the goroutine has returned
C39_Witness ==
    /\ cache.cleanup = "exited"
    /\ cache.stopped
    /\ ~cache.cancelled
    /\ cache.ticks > 0
    /\ \E k \in Keys : cache.set[k] # None /\ cache.data[k] = None
    /\ cache.op.name = "exit"

\* StopCleanup was called and StartCleanup never
C39_StoppedUnstarted ==
    /\ cache.stopped
    /\ cache.cleanup = "none"
    /\ \E k \in Keys : cache.data[k] # None

============================================================================
